---- MODULE Spec2Model ----
(***************************************************************************)
(* State-machine model of the task manager's similarity index              *)
(* (database/vectordb.py), its task service (services/task_service.py)     *)
(* and the task rows the service keeps in step with the index              *)
(* (database/crud.py).                                                     *)
(*                                                                         *)
(* Conventions.                                                            *)
(*   - An Optional[T] value is a tuple: None is <<>>, a present v is <<v>>.*)
(*   - A text is a sequence of one-character strings.                      *)
(*   - A score (a float in [0,1] in the program) is an integer number of   *)
(*     hundredths.                                                         *)
(*   - A dict is a function from key strings to values.                    *)
(***************************************************************************)
EXTENDS Integers, Sequences, FiniteSets, TLC

VARIABLES
    ef,          \* vectordb.default_ef: which embedding function the import chose
    index,       \* vectordb.task_collection: record id -> [document, metadata]
    tasks,       \* table "tasks": task id -> row
    projects,    \* table "projects": project id -> owner id
    categories,  \* table "categories": category id -> owner id
    last,        \* the operation that completed last, with its arguments and outcome
    thr,         \* request threads of the concurrent specification
    issued,      \* history: per task id, the index upsert issued last
    now          \* the clock datetime.now reads, in ticks since the start

vars == <<ef, index, tasks, projects, categories, last, thr, issued, now>>

----------------------------------------------------------------------------
(* Bounds of the model *)

MaxTaskId == 2
MaxUser == 2
MaxCalls == 2

(* Program constants *)

NResults == 5

----------------------------------------------------------------------------
(* Optional values *)

None == <<>>

Some(v) == <<v>>

IsNone(o) == o = <<>>

Get(o) == o[1]

----------------------------------------------------------------------------
(* Texts *)

EmptyText == <<>>

Txt(c) == <<c>>

RECURSIVE LStrip(_)
LStrip(t) == IF t # <<>> /\ Head(t) = " " THEN LStrip(Tail(t)) ELSE t

RECURSIVE RStrip(_)
RStrip(t) ==
    IF t # <<>> /\ t[Len(t)] = " " THEN RStrip(SubSeq(t, 1, Len(t) - 1)) ELSE t

\* str.strip()
Strip(t) == RStrip(LStrip(t))

\* f"{title} {description or ''}".strip()
TaskText(title, description) ==
    Strip(title \o <<" ">> \o (IF IsNone(description) THEN EmptyText ELSE Get(description)))

----------------------------------------------------------------------------
(* Embedding function and distance                                          *)
(*                                                                          *)
(* The sentence-transformer encoder is a deterministic map from a text to a *)
(* vector; here the vector counts the characters of the text.  The fallback *)
(* the import installs when the encoder is missing maps every text to the   *)
(* zero vector.  Distances are squared L2, the collection's default.        *)

Chars == {"a", "b", " "}

EmbeddingFunctions == {"sentence_transformer", "dummy"}

RECURSIVE Count(_, _)
Count(t, c) ==
    IF t = <<>> THEN 0 ELSE (IF Head(t) = c THEN 1 ELSE 0) + Count(Tail(t), c)

Embed(f, t) ==
    IF f = "dummy" THEN [c \in Chars |-> 0] ELSE [c \in Chars |-> Count(t, c)]

Sq(x) == x * x

Distance(u, v) == Sq(u["a"] - v["a"]) + Sq(u["b"] - v["b"]) + Sq(u[" "] - v[" "])

----------------------------------------------------------------------------
(* The collection (chromadb), as vectordb.py uses it *)

\* dict.update: the keys of d2 overwrite those of d1
DictUpdate(d1, d2) ==
    [k \in DOMAIN d1 \cup DOMAIN d2 |-> IF k \in DOMAIN d2 THEN d2[k] ELSE d1[k]]

\* task_collection.add: a record whose id is already stored is left as it is
CollectionAdd(idx, id, doc, meta) ==
    IF id \in DOMAIN idx
    THEN idx
    ELSE [i \in DOMAIN idx \cup {id} |->
            IF i = id THEN [document |-> doc, metadata |-> meta] ELSE idx[i]]

\* task_collection.update: an id that is not stored is skipped; the document is
\* replaced and the given metadata keys are written over the stored ones
CollectionUpdate(idx, id, doc, meta) ==
    IF id \notin DOMAIN idx
    THEN idx
    ELSE [idx EXCEPT ![id] =
            [document |-> doc, metadata |-> DictUpdate(idx[id].metadata, meta)]]

\* task_collection.delete(ids=[id])
CollectionDelete(idx, id) == [i \in DOMAIN idx \ {id} |-> idx[i]]

\* the records a where clause lets through; {} lets every record through
Matches(idx, where) ==
    {i \in DOMAIN idx :
        \A k \in DOMAIN where : k \in DOMAIN idx[i].metadata /\ idx[i].metadata[k] = where[k]}

Min(a, b) == IF a <= b THEN a ELSE b

Range(s) == {s[n] : n \in DOMAIN s}

\* task_collection.query: the n nearest matching records, nearest first; records at
\* the same distance come in an order the store chooses
CollectionQuery(f, idx, q, n, where) ==
    LET cand == Matches(idx, where)
        m == Min(n, Cardinality(cand))
        qv == Embed(f, q)
        d == [i \in cand |-> Distance(Embed(f, idx[i].document), qv)]
        hit == [i \in cand |->
                  [id |-> i, distance |-> d[i],
                   document |-> idx[i].document, metadata |-> idx[i].metadata]]
    IN  {[j \in 1..m |-> hit[s[j]]] :
            s \in {s \in [1..m -> cand] :
                    /\ \A x, y \in 1..m : x < y => s[x] # s[y] /\ d[s[x]] <= d[s[y]]
                    /\ \A c \in cand \ Range(s) : \A x \in 1..m : d[s[x]] <= d[c]}}

----------------------------------------------------------------------------
(* database/vectordb.py                                                     *)
(*                                                                          *)
(* Each function is the set of its possible outcomes on the index idx:      *)
(* [index: the index afterwards, raised: an exception reached the caller,   *)
(*  storeError: the store's call raised, hits: the value returned].         *)

EmptyDict == <<>>

Outcome(idx, raised, storeError, hits) ==
    [index |-> idx, raised |-> raised, storeError |-> storeError, hits |-> hits]

\* Mutant: add_task_embedding without line 54, the owner id left out of the metadata
add_task_embedding_no_owner(idx, task_id, task_text, owner_id, metadata) ==
    LET md == IF IsNone(metadata) THEN EmptyDict ELSE Get(metadata)
    IN  IF task_text = EmptyText
        THEN {Outcome(idx, FALSE, FALSE, <<>>)}
        ELSE {Outcome(CollectionAdd(idx, task_id, task_text, md), FALSE, FALSE, <<>>)}
             \cup (IF task_id \in DOMAIN idx
                   THEN {Outcome(idx, TRUE, TRUE, <<>>)}
                   ELSE {})

add_task_embedding(idx, task_id, task_text, owner_id, metadata) ==
    LET md == DictUpdate(IF IsNone(metadata) THEN EmptyDict ELSE Get(metadata),
                         [owner_id |-> owner_id])
    IN  IF task_text = EmptyText
        THEN {Outcome(idx, FALSE, FALSE, <<>>)}
        ELSE {Outcome(CollectionAdd(idx, task_id, task_text, md), FALSE, FALSE, <<>>)}
             \cup (IF task_id \in DOMAIN idx
                   THEN {Outcome(idx, TRUE, TRUE, <<>>)}  \* the store rejects the id
                   ELSE {})

\* owner_id is an Optional[int]; None and 0 are both falsy
query_similar_tasks(f, idx, query_text, n_results, owner_id) ==
    LET truthy == ~IsNone(owner_id) /\ Get(owner_id) # 0
        where_clause == IF truthy THEN [owner_id |-> Get(owner_id)] ELSE EmptyDict
    IN  {Outcome(idx, FALSE, FALSE, r) :
            r \in CollectionQuery(f, idx, query_text, n_results, where_clause)}
        \cup (IF where_clause = EmptyDict
              THEN {Outcome(idx, TRUE, TRUE, <<>>)}  \* the store rejects an empty filter
              ELSE {})

\* Mutant: delete_task_embedding without its try/except
delete_task_embedding_unguarded(idx, task_id) ==
    {Outcome(CollectionDelete(idx, task_id), FALSE, FALSE, <<>>),
     Outcome(idx, TRUE, TRUE, <<>>),
     Outcome(CollectionDelete(idx, task_id), TRUE, TRUE, <<>>)}

\* the store's delete may fail, before or after it removed the record; the
\* handler prints the error and returns
delete_task_embedding(idx, task_id) ==
    {Outcome(CollectionDelete(idx, task_id), FALSE, FALSE, <<>>),
     Outcome(idx, FALSE, TRUE, <<>>),
     Outcome(CollectionDelete(idx, task_id), FALSE, TRUE, <<>>)}

\* Mutant: update_task_embedding without the check of lines 111-113
update_task_embedding_no_skip(idx, task_id, new_task_text, owner_id, new_metadata) ==
    LET md == DictUpdate(IF IsNone(new_metadata) THEN EmptyDict ELSE Get(new_metadata),
                         [owner_id |-> owner_id])
    IN  {Outcome(CollectionUpdate(idx, task_id, new_task_text, md), FALSE, FALSE, <<>>)}

update_task_embedding(idx, task_id, new_task_text, owner_id, new_metadata) ==
    LET md == DictUpdate(IF IsNone(new_metadata) THEN EmptyDict ELSE Get(new_metadata),
                         [owner_id |-> owner_id])
    IN  IF new_task_text = EmptyText
        THEN {Outcome(idx, FALSE, FALSE, <<>>)}
        ELSE {Outcome(CollectionUpdate(idx, task_id, new_task_text, md), FALSE, FALSE, <<>>)}

----------------------------------------------------------------------------
(* The record of the operation that completed last *)

NoLast ==
    [op |-> "init", id |-> 0, text |-> EmptyText, owner |-> None, k |-> 0,
     raised |-> FALSE, storeError |-> FALSE, existed |-> FALSE, changed |-> FALSE,
     hits |-> <<>>, after |-> None,
     user |-> 0, upd |-> EmptyDict, llm |-> "none", parsed |-> None, resp |-> None]

----------------------------------------------------------------------------
(* Inputs of the index operations *)

TaskIds == 1..MaxTaskId

\* 0 is the owner id Python takes as false, 1 an ordinary one
OwnerIds == {0, 1}

IndexTexts == {EmptyText, <<"a">>, <<"b">>}

MetaArgs == {None, Some([owner_id |-> 1])}

QueryOwners == {Some(o) : o \in OwnerIds}

QueryTexts == IndexTexts \ {EmptyText}

Ks == {1, NResults}

----------------------------------------------------------------------------
(* Specification of the index alone: callers of vectordb.py *)

InitIndex ==
    /\ ef \in EmbeddingFunctions
    /\ index = EmptyDict
    /\ tasks = EmptyDict
    /\ projects = EmptyDict
    /\ categories = EmptyDict
    /\ last = NoLast
    /\ thr = EmptyDict
    /\ issued = EmptyDict
    /\ now = 0

AddTaskEmbedding ==
    \E id \in TaskIds, text \in IndexTexts, owner \in OwnerIds, meta \in MetaArgs :
      \E out \in add_task_embedding(index, id, text, owner, meta) :
        /\ index' = out.index
        /\ last' = [NoLast EXCEPT !.op = "add", !.id = id, !.text = text,
                                  !.owner = Some(owner), !.raised = out.raised,
                                  !.storeError = out.storeError,
                                  !.existed = (id \in DOMAIN index),
                                  !.changed = (out.index # index)]
        /\ UNCHANGED <<ef, now, tasks, projects, categories, thr, issued>>

UpdateTaskEmbedding ==
    \E id \in TaskIds, text \in IndexTexts, owner \in OwnerIds, meta \in MetaArgs :
      \E out \in update_task_embedding(index, id, text, owner, meta) :
        /\ index' = out.index
        /\ last' = [NoLast EXCEPT !.op = "update", !.id = id, !.text = text,
                                  !.raised = out.raised,
                                  !.storeError = out.storeError,
                                  !.existed = (id \in DOMAIN index),
                                  !.changed = (out.index # index)]
        /\ UNCHANGED <<ef, now, tasks, projects, categories, thr, issued>>

DeleteTaskEmbedding ==
    \E id \in TaskIds :
      \E out \in delete_task_embedding(index, id) :
        /\ index' = out.index
        /\ last' = [NoLast EXCEPT !.op = "delete", !.id = id, !.raised = out.raised,
                                  !.storeError = out.storeError,
                                  !.existed = (id \in DOMAIN index),
                                  !.changed = (out.index # index)]
        /\ UNCHANGED <<ef, now, tasks, projects, categories, thr, issued>>

\* History kept with a query: the call it directly follows, when that call is a
\* delete_task_embedding that returned, or an add_task_embedding of the query's
\* text for the query's owner that returned (the query closes a round trip).
After(text, owner) ==
    IF last.op = "delete" /\ ~last.raised
    THEN Some([op |-> "delete", id |-> last.id, existed |-> last.existed])
    ELSE IF /\ last.op = "add" /\ ~last.raised /\ last.text # EmptyText
            /\ last.text = text /\ last.owner = owner
         THEN Some([op |-> "add", id |-> last.id, existed |-> last.existed])
         ELSE None

QuerySimilarTasks ==
    \E text \in QueryTexts, k \in Ks, owner \in QueryOwners :
      \E out \in query_similar_tasks(ef, index, text, k, owner) :
        /\ index' = out.index
        /\ last' = [NoLast EXCEPT !.op = "query", !.owner = owner,
                                  !.k = k, !.raised = out.raised,
                                  !.storeError = out.storeError,
                                  !.changed = (out.index # index),
                                  !.hits = out.hits, !.after = After(text, owner)]
        /\ UNCHANGED <<ef, now, tasks, projects, categories, thr, issued>>

NextIndex ==
    \/ AddTaskEmbedding
    \/ UpdateTaskEmbedding
    \/ DeleteTaskEmbedding
    \/ QuerySimilarTasks

SpecIndex == InitIndex /\ [][NextIndex]_vars

----------------------------------------------------------------------------
(* Table "tasks" (database/models.py, database/crud.py)                     *)
(*                                                                          *)
(* A row is a dict from column name to value; every column but owner_id     *)
(* holds an Optional value.  A TaskCreate or TaskUpdate is the dict of the  *)
(* fields the request set (model_dump(exclude_unset=True)); a field the     *)
(* request left out reads as None.                                          *)

Field(d, k) == IF k \in DOMAIN d THEN d[k] ELSE None

\* Column defaults of models.Task for the columns an INSERT leaves out
NewRow(user_id) ==
    [owner_id |-> user_id, title |-> None, description |-> None,
     status |-> Some("To Do"), priority |-> Some(5),
     project_id |-> None, category_id |-> None, tags |-> None,
     urgency_score |-> None, importance_score |-> None,
     ai_estimated_time_hours |-> None, actual_time_spent_hours |-> None,
     started_at |-> None, completed_at |-> None]

\* SQLite gives a new row the largest id in use plus one
NextId(table) ==
    IF DOMAIN table = {} THEN 1
    ELSE (CHOOSE i \in DOMAIN table : \A j \in DOMAIN table : j <= i) + 1

Insert(table, id, row) ==
    [i \in DOMAIN table \cup {id} |-> IF i = id THEN row ELSE table[i]]

Remove(table, id) == [i \in DOMAIN table \ {id} |-> table[i]]

\* the fields of d that are not None: the ORM leaves a None out of the INSERT
NotNone(d) == [k \in {k \in DOMAIN d : ~IsNone(d[k])} |-> d[k]]

\* crud.create_user_task: the new id and the table afterwards
crud_create_user_task(db, task, user_id) ==
    LET priority_value == IF ~IsNone(Field(task, "priority")) THEN task.priority ELSE Some(5)
        urgency_score_value ==
            IF ~IsNone(Field(task, "urgency_score")) THEN task.urgency_score ELSE Some(0)
        importance_score_value ==
            IF ~IsNone(Field(task, "importance_score")) THEN task.importance_score ELSE Some(0)
        task_data_for_model ==
            [k \in DOMAIN task \ {"priority", "urgency_score", "importance_score"} |-> task[k]]
        db_task == DictUpdate(DictUpdate(NewRow(user_id), NotNone(task_data_for_model)),
                              [priority |-> priority_value,
                               urgency_score |-> urgency_score_value,
                               importance_score |-> importance_score_value])
        id == NextId(db)
    IN  [id |-> id, db |-> Insert(db, id, db_task)]

\* Mutant: crud.update_task without lines 224-230
crud_update_task_plain(db, task_id, task_update) ==
    IF task_id \notin DOMAIN db
    THEN db
    ELSE [db EXCEPT ![task_id] = DictUpdate(db[task_id], task_update)]

\* crud.update_task: the table afterwards (the row is None when there is no such task)
crud_update_task(db, task_id, task_update) ==
    IF task_id \notin DOMAIN db
    THEN db
    ELSE LET set == DictUpdate(db[task_id], task_update)
             done == set.status = Some("Done")
             row == IF done /\ ~IsNone(set.started_at) /\ ~IsNone(set.completed_at)
                    THEN [set EXCEPT !.actual_time_spent_hours =
                                        Some(Get(set.completed_at) - Get(set.started_at))]
                    ELSE IF ~done
                         THEN [set EXCEPT !.actual_time_spent_hours = None]
                         ELSE set
         IN  [db EXCEPT ![task_id] = row]

\* crud.delete_task
crud_delete_task(db, task_id) == IF task_id \in DOMAIN db THEN Remove(db, task_id) ELSE db

\* crud.get_user_categories, crud.get_user_projects: the ids of the user's rows
get_user_rows(table, user_id) == {i \in DOMAIN table : table[i] = user_id}

----------------------------------------------------------------------------
(* services/task_service.py: task life cycle                                *)
(*                                                                          *)
(* Each method is the set of its possible outcomes:                         *)
(* [db: table "tasks" afterwards, index: the index afterwards, id: the task *)
(*  id, raised, storeError].                                                *)

OrElse(o, default) == IF IsNone(o) THEN default ELSE Get(o)

_prepare_metadata_for_chromadb(task, id) ==
    [owner_id |-> task.owner_id,
     task_id |-> id,
     project_id |-> OrElse(task.project_id, -1),
     category_id |-> OrElse(task.category_id, -1),
     priority |-> OrElse(task.priority, 5),
     status |-> OrElse(task.status, "Unknown"),
     tags |-> OrElse(task.tags, ""),
     urgency_score |-> OrElse(task.urgency_score, 0),
     importance_score |-> OrElse(task.importance_score, 0),
     ai_estimated_time_hours |-> OrElse(task.ai_estimated_time_hours, 0),
     actual_time_spent_hours |-> OrElse(task.actual_time_spent_hours, 0)]

SvcOutcome(db, idx, id, raised, storeError) ==
    [db |-> db, index |-> idx, id |-> id, raised |-> raised, storeError |-> storeError]

\* f"{db_task.title} {db_task.description or ''}".strip(): a title of None prints as "None"
RowText(row) == TaskText(OrElse(row.title, <<"N", "o", "n", "e">>), row.description)

\* An index call a method makes: None when it makes none, else the arguments
EmbeddingCall(db_task, id) ==
    [task_id |-> id, task_text |-> RowText(db_task), owner_id |-> db_task.owner_id,
     metadata |-> _prepare_metadata_for_chromadb(db_task, id)]

\* create_task, lines 55-66: the add_task_embedding call for the new row
create_task_call(db_task, id) ==
    IF RowText(db_task) # EmptyText THEN Some(EmbeddingCall(db_task, id)) ELSE None

TaskService_create_task(idx, db, task, user_id) ==
    LET c == crud_create_user_task(db, task, user_id)
        call == create_task_call(c.db[c.id], c.id)
    IN  IF ~IsNone(call)
        THEN {SvcOutcome(c.db, o.index, c.id, o.raised, o.storeError) :
                o \in add_task_embedding(idx, c.id, Get(call).task_text, Get(call).owner_id,
                                         Some(Get(call).metadata))}
        ELSE {SvcOutcome(c.db, idx, c.id, FALSE, FALSE)}

\* the fields whose presence in a TaskUpdate makes update_task write the index
EmbeddedFields ==
    {"title", "description", "category_id", "project_id", "tags", "priority",
     "urgency_score", "importance_score", "ai_estimated_time_hours",
     "actual_time_spent_hours"}

\* update_task, lines 87-115: the update_task_embedding call for the updated row db2[task_id]
update_task_call(db2, task_id, task_update) ==
    IF /\ task_id \in DOMAIN db2
       /\ \E k \in EmbeddedFields : ~IsNone(Field(task_update, k))
       /\ RowText(db2[task_id]) # EmptyText
    THEN Some(EmbeddingCall(db2[task_id], task_id))
    ELSE None

TaskService_update_task(idx, db, task_id, task_update) ==
    LET db2 == crud_update_task(db, task_id, task_update)
        call == update_task_call(db2, task_id, task_update)
    IN  IF ~IsNone(call)
        THEN {SvcOutcome(db2, o.index, task_id, o.raised, o.storeError) :
                o \in update_task_embedding(idx, task_id, Get(call).task_text,
                                            Get(call).owner_id, Some(Get(call).metadata))}
        ELSE {SvcOutcome(db2, idx, task_id, FALSE, FALSE)}

TaskService_delete_task(idx, db, task_id) ==
    {SvcOutcome(crud_delete_task(db, task_id), o.index, task_id, o.raised, o.storeError) :
        o \in delete_task_embedding(idx, task_id)}

----------------------------------------------------------------------------
(* The language-model chain (ai/llm_chains.py) and the suggestion schema    *)
(* (api/schemas/ai.py)                                                      *)
(*                                                                          *)
(* The chain is prompt | llm | parser.  The model call either fails or      *)
(* yields a reply; the parser turns a reply into a TaskSuggestionResponse   *)
(* or fails.  A reply is [json: it is a JSON object, fields: its fields].   *)

SuggestionFields ==
    {"category_id", "project_id", "tags", "priority",
     "urgency_score", "importance_score", "confidence_score"}

Suggestion(category_id, project_id, tags, priority, urgency, importance, confidence) ==
    [category_id |-> category_id, project_id |-> project_id, tags |-> tags,
     priority |-> priority, urgency_score |-> urgency,
     importance_score |-> importance, confidence_score |-> confidence]

InRange(o, lo, hi) == IsNone(o) \/ (lo <= Get(o) /\ Get(o) <= hi)

\* TaskSuggestionResponse: priority in 1..10, the scores in [0, 1]
ValidSuggestion(r) ==
    /\ InRange(r.priority, 1, 10)
    /\ InRange(r.urgency_score, 0, 100)
    /\ InRange(r.importance_score, 0, 100)
    /\ InRange(r.confidence_score, 0, 100)

\* PydanticOutputParser: the response, or None when the reply does not parse
Parse(reply) ==
    IF reply.json /\ ValidSuggestion(reply.fields) THEN Some(reply.fields) ELSE None

Replies ==
    {[json |-> TRUE, fields |-> Suggestion(None, None, None, None, None, None, None)],
     [json |-> TRUE,
      fields |-> Suggestion(Some(1), Some(1), Some("urgent"), Some(3), Some(50), Some(80), Some(90))],
     [json |-> TRUE,
      fields |-> Suggestion(Some(1), None, None, Some(10), Some(100), None, None)],
     [json |-> TRUE,
      fields |-> Suggestion(None, None, None, Some(11), None, None, None)],
     [json |-> TRUE,
      fields |-> Suggestion(None, None, None, None, Some(150), None, Some(20))],
     [json |-> FALSE, fields |-> Suggestion(None, None, None, None, None, None, None)]}

\* what task_suggestion_chain.ainvoke does: "error" is a failed model call
ChainResults ==
    {[kind |-> "error", parsed |-> None]}
    \cup {[kind |-> IF IsNone(Parse(r)) THEN "unparsable" ELSE "parsed", parsed |-> Parse(r)] :
            r \in Replies}

----------------------------------------------------------------------------
(* services/task_service.py: get_ai_suggestions_for_task *)

RECURSIVE SumDistance(_)
SumDistance(hits) ==
    IF hits = <<>> THEN 0 ELSE Head(hits).distance + SumDistance(Tail(hits))

\* n / d rounded to the nearest integer, for n >= 0 and d > 0
RoundDiv(n, d) == (2 * n + d) \div (2 * d)

\* Mutant: line 214 without max(0.0, ...)
DistanceConfidence_unclamped(hits) ==
    IF hits = <<>> THEN 0
    ELSE IF SumDistance(hits) >= Len(hits)
         THEN 0 - RoundDiv(100 * (SumDistance(hits) - Len(hits)), Len(hits))
         ELSE RoundDiv(100 * (Len(hits) - SumDistance(hits)), Len(hits))

\* round(max(0.0, 1.0 - avg_distance / 1.0), 2) in hundredths; 0 without hits
DistanceConfidence(hits) ==
    IF hits = <<>> THEN 0
    ELSE IF SumDistance(hits) >= Len(hits) THEN 0
         ELSE RoundDiv(100 * (Len(hits) - SumDistance(hits)), Len(hits))

\* the response returned when the chain raised
DefaultSuggestion == Suggestion(None, None, None, None, Some(0), Some(0), Some(0))

\* Mutant: lines 207-226 without the defaults of lines 222-223
PostProcess_keeping_null(llm_response, hits) ==
    [llm_response EXCEPT
        !.confidence_score = IF IsNone(@) THEN Some(DistanceConfidence(hits)) ELSE @]

\* lines 207-226: the post-processing of a parsed response
PostProcess(llm_response, hits) ==
    [llm_response EXCEPT
        !.confidence_score = IF IsNone(@) THEN Some(DistanceConfidence(hits)) ELSE @,
        !.urgency_score = IF IsNone(@) THEN Some(0) ELSE @,
        !.importance_score = IF IsNone(@) THEN Some(0) ELSE @]

\* Mutant: the handler of lines 228-239 lets a failed model call through
suggestion_from_chain_propagating(c, hits) ==
    IF c.kind = "parsed"
    THEN [raised |-> FALSE, resp |-> Some(PostProcess(Get(c.parsed), hits))]
    ELSE IF c.kind = "error"
         THEN [raised |-> TRUE, resp |-> None]
         ELSE [raised |-> FALSE, resp |-> Some(DefaultSuggestion)]

\* lines 198-239: the try block around the chain and its handler, which catches
\* what the model call raises and what the parser raises alike
suggestion_from_chain(c, hits) ==
    IF c.kind = "parsed"
    THEN [raised |-> FALSE, resp |-> Some(PostProcess(Get(c.parsed), hits))]
    ELSE [raised |-> FALSE, resp |-> Some(DefaultSuggestion)]

\* Outcomes: [index, db, projects, categories: the stores afterwards, raised,
\*   hits: the similar tasks found, llm: what the chain did, parsed: the
\*   response the parser made of the model's reply, resp: the response returned]
SuggestOutcome(idx, db, projs, cats, raised, hits, llm, parsed, resp) ==
    [index |-> idx, db |-> db, projects |-> projs, categories |-> cats,
     raised |-> raised, hits |-> hits, llm |-> llm, parsed |-> parsed, resp |-> resp]

\* lines 142-239, after the query: q is the query's outcome.  The contexts
\* built for the prompt read the hits and the user's categories and projects.
SuggestFlow(q, db, projs, cats, user_id) ==
    LET available_categories == get_user_rows(cats, user_id)
        available_projects == get_user_rows(projs, user_id)
    IN  IF q.raised
        THEN {SuggestOutcome(q.index, db, projs, cats, TRUE, <<>>, "none", None, None)}
        ELSE {SuggestOutcome(q.index, db, projs, cats,
                             suggestion_from_chain(c, q.hits).raised, q.hits, c.kind,
                             c.parsed, suggestion_from_chain(c, q.hits).resp) :
                c \in ChainResults}

\* Mutant: the flow keeps the request's text in the index
get_ai_suggestions_for_task_storing(f, idx, db, projs, cats, request, user_id) ==
    LET query_text == TaskText(request.title, request.description)
    IN  UNION {SuggestFlow([q EXCEPT !.index = CollectionAdd(idx, NextId(idx), query_text,
                                                             [owner_id |-> user_id])],
                           db, projs, cats, user_id) :
                q \in query_similar_tasks(f, idx, query_text, NResults, Some(user_id))}

get_ai_suggestions_for_task(f, idx, db, projs, cats, request, user_id) ==
    LET query_text == TaskText(request.title, request.description)
    IN  UNION {SuggestFlow(q, db, projs, cats, user_id) :
                q \in query_similar_tasks(f, idx, query_text, NResults, Some(user_id))}

----------------------------------------------------------------------------
(* Inputs of the service operations *)

Users == 1..MaxUser

TaskCreates ==
    {[title |-> Some(<<"a">>)],
     [title |-> Some(<<"a", "a">>)],
     [title |-> Some(<<" ">>), description |-> Some(<<>>)]}

TaskUpdates ==
    {[title |-> Some(<<"b">>)],
     [description |-> None],
     [priority |-> Some(3)]}

Requests ==
    {[title |-> <<"a">>, description |-> None],
     [title |-> <<"b">>, description |-> Some(<<"a">>)]}

----------------------------------------------------------------------------
(* Specification of the task service: one call at a time *)

Init == InitIndex

CreateTask ==
    \E task \in TaskCreates, user \in Users :
      /\ NextId(tasks) <= MaxTaskId
      /\ \E out \in TaskService_create_task(index, tasks, task, user) :
           /\ tasks' = out.db
           /\ index' = out.index
           /\ last' = [NoLast EXCEPT !.op = "create_task", !.id = out.id, !.user = user,
                                     !.raised = out.raised, !.storeError = out.storeError,
                                     !.existed = (out.id \in DOMAIN index),
                                     !.changed = (out.index # index)]
      /\ UNCHANGED <<ef, now, projects, categories, thr, issued>>

UpdateTask ==
    \E id \in TaskIds, upd \in TaskUpdates :
      /\ \E out \in TaskService_update_task(index, tasks, id, upd) :
           /\ tasks' = out.db
           /\ index' = out.index
           /\ last' = [NoLast EXCEPT !.op = "update_task", !.id = id, !.upd = upd,
                                     !.raised = out.raised, !.storeError = out.storeError,
                                     !.existed = (id \in DOMAIN tasks),
                                     !.changed = (out.index # index)]
      /\ UNCHANGED <<ef, now, projects, categories, thr, issued>>

DeleteTask ==
    \E id \in TaskIds :
      /\ \E out \in TaskService_delete_task(index, tasks, id) :
           /\ tasks' = out.db
           /\ index' = out.index
           /\ last' = [NoLast EXCEPT !.op = "delete_task", !.id = id,
                                     !.raised = out.raised, !.storeError = out.storeError,
                                     !.existed = (id \in DOMAIN tasks),
                                     !.changed = (out.index # index)]
      /\ UNCHANGED <<ef, now, projects, categories, thr, issued>>

GetAiSuggestions ==
    \E request \in Requests, user \in Users :
      /\ \E out \in get_ai_suggestions_for_task(ef, index, tasks, projects, categories,
                                                request, user) :
           /\ index' = out.index
           /\ tasks' = out.db
           /\ projects' = out.projects
           /\ categories' = out.categories
           /\ last' = [NoLast EXCEPT !.op = "suggest", !.user = user,
                                     !.raised = out.raised, !.hits = out.hits,
                                     !.llm = out.llm, !.parsed = out.parsed,
                                     !.resp = out.resp,
                                     !.changed = \/ out.index # index
                                                 \/ out.db # tasks
                                                 \/ out.projects # projects
                                                 \/ out.categories # categories]
      /\ UNCHANGED <<ef, now, thr, issued>>

Next ==
    \/ CreateTask
    \/ UpdateTask
    \/ DeleteTask

Spec == Init /\ [][Next]_vars

----------------------------------------------------------------------------
(* Specification of the suggestion flow: tasks are created and suggestions  *)
(* are asked for, one call at a time                                        *)

\* the tables of projects and categories, as earlier calls left them
SeedTables == {EmptyDict, [i \in {1} |-> 1]}

InitSuggest ==
    /\ ef \in EmbeddingFunctions
    /\ index = EmptyDict
    /\ tasks = EmptyDict
    /\ projects \in SeedTables
    /\ categories = projects
    /\ last = NoLast
    /\ thr = EmptyDict
    /\ issued = EmptyDict
    /\ now = 0

NextSuggest ==
    \/ CreateTask
    \/ GetAiSuggestions

SpecSuggest == InitSuggest /\ [][NextSuggest]_vars

----------------------------------------------------------------------------
(* Specification of concurrent requests                                     *)
(*                                                                          *)
(* The endpoints are synchronous handlers, which the server runs on a pool  *)
(* of threads.  A thread in TaskService.create_task or .update_task first   *)
(* commits the row (pc "call": the row is committed and the index call is   *)
(* about to be made), then calls add_ or update_task_embedding (pc "store": *)
(* the call is issued and the store has not applied it), and the store      *)
(* applies the call (pc "idle").  The store applies one call at a time.     *)

Threads == {"t1", "t2"}

IdleThread(n) == [pc |-> "idle", op |-> "none", call |-> None, calls |-> n]

InitConc ==
    /\ ef \in EmbeddingFunctions
    /\ index = EmptyDict
    /\ tasks = EmptyDict
    /\ projects = EmptyDict
    /\ categories = EmptyDict
    /\ last = NoLast
    /\ thr = [t \in Threads |-> IdleThread(0)]
    /\ issued = EmptyDict
    /\ now = 0

\* the thread after the commit: on to the index call, or done when there is none
AfterCommit(t, op, call) ==
    IF IsNone(call)
    THEN [thr EXCEPT ![t] = IdleThread(thr[t].calls + 1)]
    ELSE [thr EXCEPT ![t] = [pc |-> "call", op |-> op, call |-> call,
                             calls |-> thr[t].calls + 1]]

\* create_task, line 51
BeginCreate(t) ==
    /\ thr[t].pc = "idle"
    /\ thr[t].calls < MaxCalls
    /\ NextId(tasks) <= MaxTaskId
    /\ \E task \in TaskCreates, user \in Users :
         LET c == crud_create_user_task(tasks, task, user)
         IN  /\ tasks' = c.db
             /\ thr' = AfterCommit(t, "add", create_task_call(c.db[c.id], c.id))
    /\ UNCHANGED <<ef, now, index, projects, categories, last, issued>>

\* update_task, line 83
BeginUpdate(t) ==
    /\ thr[t].pc = "idle"
    /\ thr[t].calls < MaxCalls
    /\ \E id \in DOMAIN tasks, upd \in TaskUpdates :
         LET db2 == crud_update_task(tasks, id, upd)
         IN  /\ tasks' = db2
             /\ thr' = AfterCommit(t, "update", update_task_call(db2, id, upd))
    /\ UNCHANGED <<ef, now, index, projects, categories, last, issued>>

InFlight(t, id) == thr[t].pc = "store" /\ Get(thr[t].call).task_id = id

\* create_task, line 58; update_task, line 105: the index call is made
Issue(t) ==
    /\ thr[t].pc = "call"
    /\ LET call == Get(thr[t].call)
       IN  issued' =
             Insert(issued, call.task_id,
                    [task_text |-> call.task_text, metadata |-> call.metadata,
                     concurrent |-> \E u \in Threads \ {t} : InFlight(u, call.task_id)])
    /\ thr' = [thr EXCEPT ![t].pc = "store"]
    /\ UNCHANGED <<ef, now, index, tasks, projects, categories, last>>

\* vectordb.py, lines 60 and 115: the store applies the call
Apply(t) ==
    /\ thr[t].pc = "store"
    /\ LET call == Get(thr[t].call)
       IN  \E o \in (IF thr[t].op = "add"
                     THEN add_task_embedding(index, call.task_id, call.task_text,
                                             call.owner_id, Some(call.metadata))
                     ELSE update_task_embedding(index, call.task_id, call.task_text,
                                                call.owner_id, Some(call.metadata))) :
             index' = o.index
    /\ thr' = [thr EXCEPT ![t] = IdleThread(thr[t].calls)]
    /\ UNCHANGED <<ef, now, tasks, projects, categories, last, issued>>

NextConc ==
    \E t \in Threads :
      \/ BeginCreate(t)
      \/ BeginUpdate(t)
      \/ Issue(t)
      \/ Apply(t)

SpecConc == InitConc /\ [][NextConc]_vars

Quiescent == \A t \in Threads : thr[t].pc = "idle"

----------------------------------------------------------------------------
(* Properties of the index (SpecIndex)                                      *)

\* the query directly follows a returned delete_task_embedding / a returned
\* add_task_embedding of the query's own text and owner
AfterDelete == ~IsNone(last.after) /\ Get(last.after).op = "delete"
AfterAdd == ~IsNone(last.after) /\ Get(last.after).op = "add"

\* C1: query_similar_tasks never returns a record whose stored owner_id
\* differs from the owner id it was asked for, whatever the owner id and
\* whatever the index holds.
C1_OwnerIsolation ==
    (last.op = "query" /\ ~last.raised) =>
        \A n \in DOMAIN last.hits :
            last.hits[n].metadata.owner_id = Get(last.owner)

\* C4: a query that follows a returned delete_task_embedding(id) returns no
\* hit with that id, also when the store's delete reported an error.
C4_DeletedNeverReturned ==
    (last.op = "query" /\ AfterDelete) =>
        \A n \in DOMAIN last.hits : last.hits[n].id # Get(last.after).id

TiedWith(id, owner) ==
    {j \in DOMAIN index \ {id} :
        /\ Distance(Embed(ef, index[j].document), Embed(ef, index[id].document)) = 0
        /\ (owner = 0 \/ index[j].metadata.owner_id = owner)}

C7_EmptyTextIsNoOp ==
    (last.op \in {"add", "update"} /\ last.text = EmptyText) =>
        (~last.raised /\ ~last.changed)

C7_EmptyTextIsNoOp_Witness ==
    /\ last.op = "update" /\ last.text = EmptyText
    /\ last.existed
    /\ index[last.id].document # EmptyText

\* C8: delete_task_embedding of an id that has no record raises nothing and
\* leaves every record as it was.
C8_DeleteMissingIsNoOp ==
    (last.op = "delete" /\ ~last.existed) => (~last.raised /\ ~last.changed)

C8_DeleteMissingIsNoOp_Witness ==
    /\ last.op = "delete" /\ ~last.existed
    /\ last.storeError
    /\ index # EmptyDict

----------------------------------------------------------------------------
(* Properties of the task life cycle (Spec)                                 *)

\* C5: the record of a task follows the task: after create_task the index
\* holds a record under the new id owned by the creator, after an update_task
\* that sets the title or the description the record's text is the text of the
\* task's new title and description, after delete_task there is no record.
\* Stated for tasks whose text is not empty, the ones the index takes.
C5_EmbeddingFollowsLifecycle ==
    /\ (last.op = "create_task" /\ ~last.raised /\ RowText(tasks[last.id]) # EmptyText) =>
          /\ last.id \in DOMAIN index
          /\ index[last.id].metadata.owner_id = last.user
    /\ (last.op = "update_task" /\ ~last.raised /\ last.existed
          /\ DOMAIN last.upd \cap {"title", "description"} # {}
          /\ RowText(tasks[last.id]) # EmptyText) =>
          /\ last.id \in DOMAIN index
          /\ index[last.id].document = RowText(tasks[last.id])
    /\ (last.op = "delete_task" /\ ~last.raised) => last.id \notin DOMAIN index

----------------------------------------------------------------------------
(* Properties of the suggestion flow (SpecSuggest)                          *)

NullOrZero(o) == IsNone(o) \/ Get(o) = 0

\* C2: when the model call fails, get_ai_suggestions_for_task raises nothing
\* and returns a response whose category_id, project_id, tags and priority are
\* null and whose scores are null or zero.
C2_ModelFailureGivesDefault ==
    (last.op = "suggest" /\ last.llm = "error") =>
        /\ ~last.raised
        /\ ~IsNone(last.resp)
        /\ IsNone(Get(last.resp).category_id)
        /\ IsNone(Get(last.resp).project_id)
        /\ IsNone(Get(last.resp).tags)
        /\ IsNone(Get(last.resp).priority)
        /\ NullOrZero(Get(last.resp).confidence_score)
        /\ NullOrZero(Get(last.resp).urgency_score)
        /\ NullOrZero(Get(last.resp).importance_score)

C2_ModelFailureGivesDefault_Witness ==
    /\ last.op = "suggest" /\ last.llm = "error"
    /\ last.hits # <<>>
    /\ ~IsNone(last.resp)

\* C3: when the model's reply cannot be parsed, get_ai_suggestions_for_task
\* raises an error instead of returning a response.
C3_ParseFailurePropagates ==
    (last.op = "suggest" /\ last.llm = "unparsable") => last.raised

\* C10: get_ai_suggestions_for_task only reads: the index and the tables of
\* tasks, categories and projects are after the call what they were before
\* it, on every path.
C10_SuggestionsOnlyRead ==
    last.op = "suggest" => ~last.changed

C10_SuggestionsOnlyRead_Witness ==
    /\ last.op = "suggest" /\ last.llm = "parsed"
    /\ last.hits # <<>>
    /\ projects # EmptyDict

\* the sum of the distances of the hits found last
HitDistances == SumDistance(last.hits)

\* c hundredths is 1 - avg_distance rounded to 2 decimals, avg_distance being
\* total / n
IsRounded(c, total, n) == 2 * (c * n - 100 * (n - total)) \in (0 - n)..n

\* C20: when the parsed reply carries no confidence score, the confidence
\* returned is max(0, 1 - avg_distance / max_expected_distance) over the
\* hits, rounded to 2 decimals, and 0 without hits; a confidence score of the
\* reply is returned as it is.
C20_FallbackConfidence ==
    (last.op = "suggest" /\ last.llm = "parsed") =>
        LET reply == Get(last.parsed).confidence_score
            conf == Get(last.resp).confidence_score
            n == Len(last.hits)
        IN  /\ ~last.raised
            /\ ~IsNone(reply) => conf = reply
            /\ (IsNone(reply) /\ n = 0) => conf = Some(0)
            /\ (IsNone(reply) /\ n > 0 /\ HitDistances >= n) => conf = Some(0)
            /\ (IsNone(reply) /\ n > 0 /\ HitDistances < n) =>
                  (~IsNone(conf) /\ IsRounded(Get(conf), HitDistances, n))

C20_FallbackConfidence_Witness ==
    /\ last.op = "suggest" /\ last.llm = "parsed"
    /\ IsNone(Get(last.parsed).confidence_score)
    /\ last.hits # <<>>
    /\ HitDistances < Len(last.hits)
    /\ Get(last.resp).confidence_score = Some(50)

\* the score the response carries for a score of the parsed reply
Normalized(o) == IF IsNone(o) THEN Some(0) ELSE o

\* C21: every response get_ai_suggestions_for_task returns has an urgency
\* score and an importance score that are not null: a null of the model's
\* reply is replaced by 0.0, a score of the reply is passed through as it is.
C21_ScoresNeverNull ==
    (last.op = "suggest" /\ ~last.raised) =>
        /\ ~IsNone(last.resp)
        /\ ~IsNone(Get(last.resp).urgency_score)
        /\ ~IsNone(Get(last.resp).importance_score)
        /\ last.llm = "parsed" =>
              /\ Get(last.resp).urgency_score = Normalized(Get(last.parsed).urgency_score)
              /\ Get(last.resp).importance_score
                   = Normalized(Get(last.parsed).importance_score)

C21_ScoresNeverNull_Witness ==
    /\ last.op = "suggest" /\ last.llm = "parsed"
    /\ Get(last.parsed).urgency_score = Some(100)
    /\ IsNone(Get(last.parsed).importance_score)
    /\ Get(last.resp).urgency_score = Some(100)
    /\ Get(last.resp).importance_score = Some(0)

----------------------------------------------------------------------------
(* Properties of concurrent calls (SpecConc)                                *)

\* C9: when two upserts for one task id ran concurrently and both have
\* returned, the record holds the text and the metadata of the upsert that
\* was issued last.
C9_LastWriteWins ==
    Quiescent =>
        \A id \in DOMAIN issued :
            issued[id].concurrent =>
                /\ id \in DOMAIN index
                /\ index[id].document = issued[id].task_text
                /\ index[id].metadata = issued[id].metadata

----------------------------------------------------------------------------
(* ai/features.py: extract_task_features                                    *)
(*                                                                          *)
(* A task record is a dict from key to an Optional value: a key the record  *)
(* lacks is not in its domain, a key it holds with None maps to None.  A    *)
(* number in a pandas Series is Some(n); NaN, which pandas puts where a     *)
(* value is None or has no entry, is a value of its own.  The clock counts  *)
(* ticks, TicksPerDay to the day, and days_until_deadline is kept in ticks, *)
(* so that half days are told from whole ones: -1 day is -TicksPerDay.      *)

MaxNow == 3
MaxPieces == 3

TicksPerDay == 2

NaN == <<"nan", "nan">>

IsNumber(v) == Len(v) = 1

\* dict.get(key, default)
DictGet(d, key, default) == IF key \in DOMAIN d THEN d[key] ELSE default

\* the texts of n characters the inputs use
Repeat(c, n) == [i \in 1..n |-> c]

\* a deadline is a datetime (timezone-aware or naive), a string, or a value of
\* another type; a string is empty, an ISO-8601 text of instant t with a suffix,
\* or some other text
Datetime(t, tz) == [kind |-> "datetime", t |-> t, tz |-> tz]
IsoString(t, suffix) == [kind |-> "str", empty |-> FALSE, iso |-> Some([t |-> t, suffix |-> suffix])]
OtherString == [kind |-> "str", empty |-> FALSE, iso |-> None]
EmptyString == [kind |-> "str", empty |-> TRUE, iso |-> None]
OtherValue(v) == [kind |-> "int", v |-> v]

\* bool(deadline) of a value that is not None
Truthy(deadline) ==
    CASE deadline.kind = "datetime" -> TRUE
      [] deadline.kind = "str" -> ~deadline.empty
      [] OTHER -> deadline.v # 0

\* str.replace('Z', '+00:00') of a string that ends with 'Z'
ReplaceZ(deadline) ==
    IF ~IsNone(deadline.iso) /\ Get(deadline.iso).suffix = "Z"
    THEN IsoString(Get(deadline.iso).t, "+00:00")
    ELSE deadline

\* datetime.fromisoformat: None stands for the ValueError
fromisoformat(deadline) ==
    IF ~IsNone(deadline.iso) /\ Get(deadline.iso).suffix \in {"", "+00:00"}
    THEN Some(Datetime(Get(deadline.iso).t,
                       IF Get(deadline.iso).suffix = "" THEN "naive" ELSE "utc"))
    ELSE None

\* Mutant: lines 40-50 with a parser that reads any text as a date
ParseDeadline_lenient(deadline) ==
    IF deadline.kind = "str"
    THEN (IF IsNone(deadline.iso) THEN Some(Datetime(0, "naive"))
          ELSE fromisoformat(ReplaceZ(deadline)))
    ELSE IF deadline.kind = "datetime" THEN Some(deadline) ELSE None

\* lines 40-50: the datetime the deadline stands for, None when it stands for none
ParseDeadline(deadline) ==
    IF deadline.kind = "str"
    THEN fromisoformat(ReplaceZ(deadline))
    ELSE IF deadline.kind = "datetime" THEN Some(deadline) ELSE None

Max(a, b) == IF a >= b THEN a ELSE b

\* Mutant: lines 62-67 with 0 days for a task without deadline
deadline_features_zero_days(task_data, clock) ==
    LET deadline == DictGet(task_data, "deadline", None)
        parsed == IF ~IsNone(deadline) /\ Truthy(Get(deadline))
                  THEN ParseDeadline(Get(deadline)) ELSE None
    IN  IF ~IsNone(parsed)
        THEN [days_until_deadline |-> Some(Max(0, Get(parsed).t - clock)),
              has_deadline |-> Some(1)]
        ELSE [days_until_deadline |-> Some(0), has_deadline |-> Some(0)]

\* Mutant: line 60 with whole days, as timedelta.days counts them
deadline_features_whole_days(task_data, clock) ==
    LET deadline == DictGet(task_data, "deadline", None)
        parsed == IF ~IsNone(deadline) /\ Truthy(Get(deadline))
                  THEN ParseDeadline(Get(deadline)) ELSE None
    IN  IF ~IsNone(parsed)
        THEN [days_until_deadline |->
                Some(Max(0, ((Get(parsed).t - clock) \div TicksPerDay) * TicksPerDay)),
              has_deadline |-> Some(1)]
        ELSE [days_until_deadline |-> Some(-1 * TicksPerDay), has_deadline |-> Some(0)]

\* lines 37-67: [days_until_deadline, has_deadline]
deadline_features(task_data, clock) ==
    LET deadline == DictGet(task_data, "deadline", None)
        parsed == IF ~IsNone(deadline) /\ Truthy(Get(deadline))
                  THEN ParseDeadline(Get(deadline)) ELSE None
    IN  IF ~IsNone(parsed)
        THEN [days_until_deadline |-> Some(Max(0, Get(parsed).t - clock)),
              has_deadline |-> Some(1)]
        ELSE [days_until_deadline |-> Some(-1 * TicksPerDay), has_deadline |-> Some(0)]

\* str.lower, on the letters the inputs use
LowerChar(c) ==
    CASE c = "U" -> "u"
      [] c = "M" -> "m"
      [] OTHER -> c

Lower(t) == [i \in DOMAIN t |-> LowerChar(t[i])]

\* str.split(sep)
RECURSIVE Split(_, _)
Split(t, sep) ==
    IF sep \notin Range(t)
    THEN <<t>>
    ELSE LET i == CHOOSE i \in DOMAIN t : t[i] = sep /\ \A j \in 1..(i - 1) : t[j] # sep
         IN  <<SubSeq(t, 1, i - 1)>> \o Split(SubSeq(t, i + 1, Len(t)), sep)

NonBlank(tag) == Strip(tag) # EmptyText

\* line 78: [tag.strip().lower() for tag in tags_str.split(',') if tag.strip()]
TagList(tags_str) ==
    LET kept == SelectSeq(Split(tags_str, ","), NonBlank)
    IN  [i \in DOMAIN kept |-> Lower(Strip(kept[i]))]

Flag(b) == IF b THEN Some(1) ELSE Some(0)

\* the keywords of lines 81-83
UrgentTag == <<"u", "r", "g", "e", "n", "t">>
MeetingTag == <<"m", "e", "e", "t", "i", "n", "g">>
ReportTag == <<"r", "e", "p", "o", "r", "t">>

\* Mutant: line 78 without .lower()
tag_features_case_sensitive(task_data) ==
    LET tags_str == DictGet(task_data, "tags", None)
        kept == SelectSeq(Split(Get(tags_str), ","), NonBlank)
        tags == [i \in DOMAIN kept |-> Strip(kept[i])]
    IN  IF ~IsNone(tags_str) /\ Get(tags_str) # EmptyText
        THEN [num_tags |-> Some(Len(tags)),
              has_urgent_tag |-> Flag(UrgentTag \in Range(tags)),
              has_meeting_tag |-> Flag(MeetingTag \in Range(tags)),
              has_report_tag |-> Flag(ReportTag \in Range(tags))]
        ELSE [num_tags |-> Some(0), has_urgent_tag |-> Some(0),
              has_meeting_tag |-> Some(0), has_report_tag |-> Some(0)]

\* lines 76-88
tag_features(task_data) ==
    LET tags_str == DictGet(task_data, "tags", None)
        tags == TagList(Get(tags_str))
    IN  IF ~IsNone(tags_str) /\ Get(tags_str) # EmptyText
        THEN [num_tags |-> Some(Len(tags)),
              has_urgent_tag |-> Flag(UrgentTag \in Range(tags)),
              has_meeting_tag |-> Flag(MeetingTag \in Range(tags)),
              has_report_tag |-> Flag(ReportTag \in Range(tags))]
        ELSE [num_tags |-> Some(0), has_urgent_tag |-> Some(0),
              has_meeting_tag |-> Some(0), has_report_tag |-> Some(0)]

\* Mutant: the list of lines 92-96 with priority and days_until_deadline exchanged
expected_features_exchanged ==
    <<"title_length", "description_length", "days_until_deadline", "priority",
      "has_deadline", "project_id", "category_id", "num_tags",
      "has_urgent_tag", "has_meeting_tag", "has_report_tag">>

\* lines 92-96
expected_features ==
    <<"title_length", "description_length", "priority", "days_until_deadline",
      "has_deadline", "project_id", "category_id", "num_tags",
      "has_urgent_tag", "has_meeting_tag", "has_report_tag">>

\* pd.Series(data, index=index): the entries of data under the labels of index,
\* in the order of index; a label without an entry, or with None, holds NaN
Series(data, idx) ==
    [index |-> idx,
     values |-> [k \in Range(idx) |->
                   IF k \in DOMAIN data /\ ~IsNone(data[k]) THEN data[k] ELSE NaN]]

\* Series.to_dict()
to_dict(series) == series.values

\* lines 97-99: the expected features the dict lacks are set to 0
FillExpected(features) ==
    [k \in DOMAIN features \cup Range(expected_features) |->
        IF k \in DOMAIN features THEN features[k] ELSE Some(0)]

\* Outcomes: [raised: an exception reached the caller, series: the Series returned]
\* len(None) raises TypeError
extract_task_features(task_data, clock) ==
    LET title == DictGet(task_data, "title", Some(EmptyText))
        description == DictGet(task_data, "description", Some(EmptyText))
        d == deadline_features(task_data, clock)
        g == tag_features(task_data)
        features ==
            [title_length |-> Some(Len(Get(title))),
             description_length |-> Some(Len(Get(description))),
             priority |-> DictGet(task_data, "priority", Some(5)),
             days_until_deadline |-> d.days_until_deadline,
             has_deadline |-> d.has_deadline,
             project_id |-> DictGet(task_data, "project_id", Some(0)),
             category_id |-> DictGet(task_data, "category_id", Some(0)),
             num_tags |-> g.num_tags,
             has_urgent_tag |-> g.has_urgent_tag,
             has_meeting_tag |-> g.has_meeting_tag,
             has_report_tag |-> g.has_report_tag]
    IN  IF IsNone(title) \/ IsNone(description)
        THEN {[raised |-> TRUE, series |-> None]}
        ELSE {[raised |-> FALSE,
               series |-> Some(Series(FillExpected(features), expected_features))]}

----------------------------------------------------------------------------
(* Specification of the feature extractor: callers of extract_task_features *)
(* while the clock advances                                                 *)

\* marks a key the record does not hold
Absent == <<"absent", "absent", "absent">>

MakeRecord(r) == [k \in {k \in DOMAIN r : r[k] # Absent} |-> r[k]]

Deadlines == {1, MaxNow}

DeadlineValues ==
    {Absent, None, Some(OtherString), Some(EmptyString), Some(OtherValue(7)),
     Some(OtherValue(0))}
    \cup {Some(Datetime(t, tz)) : t \in Deadlines, tz \in {"utc", "naive"}}
    \cup {Some(IsoString(t, suffix)) : t \in Deadlines, suffix \in {"Z", ""}}

\* the pieces tag strings are made of, and the strings of up to MaxPieces pieces
Pieces ==
    {UrgentTag, <<"U", "r", "g", "e", "n", "t">>, MeetingTag, <<" ">>, <<",">>}

RECURSIVE Strings(_)
Strings(n) ==
    IF n = 0 THEN {EmptyText}
    ELSE Strings(n - 1) \cup {t \o pc : t \in Strings(n - 1), pc \in Pieces}

TagStrings == Strings(MaxPieces)

\* the records extract_task_features is called with
TaskRecords ==
    {MakeRecord([title |-> t, description |-> d, priority |-> p, deadline |-> dl,
                 project_id |-> pj, category_id |-> c, tags |-> g]) :
        t \in {Absent, None, Some(<<"a">>)},
        d \in {Absent, None, Some(<<"b">>)},
        p \in {Absent, None, Some(1)},
        dl \in DeadlineValues,
        pj \in {Absent, None, Some(1)},
        c \in {Absent, None, Some(1)},
        g \in {Absent, None, Some(EmptyText)}}

\* records that hold a tag string
TagRecords == {[title |-> Some(<<"a">>), tags |-> Some(g)] : g \in TagStrings}

\* a caller holds one of the records
HoldsRecord(records) ==
    /\ ef = "sentence_transformer"
    /\ index = EmptyDict
    /\ tasks = EmptyDict
    /\ projects = EmptyDict
    /\ categories = EmptyDict
    /\ last \in {[op |-> "record", task_data |-> r, clock |-> 0, raised |-> FALSE,
                  series |-> None] : r \in records}
    /\ thr = EmptyDict
    /\ issued = EmptyDict
    /\ now = 0

InitFeatures == HoldsRecord(TaskRecords)

\* the caller extracts the features of its record, now
ExtractTaskFeatures ==
    \E out \in extract_task_features(last.task_data, now) :
      /\ last' = [op |-> "extract", task_data |-> last.task_data, clock |-> now,
                  raised |-> out.raised, series |-> out.series]
      /\ UNCHANGED <<ef, now, index, tasks, projects, categories, thr, issued>>

\* time passes
Tick ==
    /\ now < MaxNow
    /\ now' = now + 1
    /\ UNCHANGED <<ef, index, tasks, projects, categories, last, thr, issued>>

NextFeatures ==
    \/ ExtractTaskFeatures
    \/ Tick

SpecFeatures == InitFeatures /\ [][NextFeatures]_vars

(* Specification of the tag features: callers of extract_task_features with *)
(* a record that holds a tag string                                         *)

InitTags == HoldsRecord(TagRecords)

NextTags == ExtractTaskFeatures

SpecTags == InitTags /\ [][NextTags]_vars

----------------------------------------------------------------------------
(* ai/models/time_estimator.py: TimeEstimatorModel                          *)
(*                                                                          *)
(* Hours are kept in thousandths, confidences in hundredths.                *)

\* lines 23-27
feature_names ==
    <<"title_length", "description_length", "priority", "days_until_deadline",
      "has_deadline", "project_id", "category_id", "num_tags",
      "has_urgent_tag", "has_meeting_tag", "has_report_tag">>

\* lines 34-46: model.coef_, by position
coef_ == <<10, 5, -100, -50, 500, 0, 0, 100, 750, 200, 300>>

\* line 47: model.intercept_
intercept_ == 1500

\* line 80: the least estimate
MinEstimate == 250

\* the number of ticks that make one unit of a feature
UnitOf(name) == IF name = "days_until_deadline" THEN TicksPerDay ELSE 1

RECURSIVE Dot(_, _, _)
\* the sum over positions i..Len(X) of coef_[i] * X[i]
Dot(X, names, i) ==
    IF i > Len(X) THEN 0
    ELSE (coef_[i] * Get(X[i])) \div UnitOf(names[i]) + Dot(X, names, i + 1)

\* Outcomes: [raised, value].  LinearRegression.predict validates its input and
\* raises ValueError when it holds NaN
\* lines 52-80
predict(features) ==
    LET feature_series == Series(features, feature_names)
        X == [i \in DOMAIN feature_names |-> feature_series.values[feature_names[i]]]
    IN  IF \E i \in DOMAIN X : ~IsNumber(X[i])
        THEN {[raised |-> TRUE, value |-> None]}
        ELSE {[raised |-> FALSE,
               value |-> Some(Max(MinEstimate, intercept_ + Dot(X, feature_names, 1)))]}

\* a comparison with NaN is false
NumberBelow(v, bound) == IsNumber(v) /\ Get(v) < bound

Bonus(b, amount) == IF b THEN amount ELSE 0

\* Mutant: get_confidence with the deadline bonus given to every task
get_confidence_always_bonus(features) ==
    LET description_length == DictGet(features, "description_length", Some(0))
    IN  IF IsNone(description_length)
        THEN {[raised |-> TRUE, value |-> None]}
        ELSE {[raised |-> FALSE,
               value |-> Some(Min(100, Max(0, 70 + 10
                                 + Bonus(NumberBelow(description_length, 50), 5))))]}

\* lines 82-99; None < 50 raises TypeError
get_confidence(features) ==
    LET has_deadline == DictGet(features, "has_deadline", Some(0))
        description_length == DictGet(features, "description_length", Some(0))
    IN  IF IsNone(description_length)
        THEN {[raised |-> TRUE, value |-> None]}
        ELSE {[raised |-> FALSE,
               value |-> Some(Min(100, Max(0, 70 + Bonus(has_deadline = Some(1), 10)
                                 + Bonus(NumberBelow(description_length, 50), 5))))]}

----------------------------------------------------------------------------
(* services/task_service.py: estimate_task_completion_time *)

\* the fields of TaskCreate the estimation reads
TaskCreateFields ==
    {"title", "description", "priority", "deadline", "project_id", "category_id", "tags"}

\* the JSON form of a field: a datetime becomes its ISO-8601 string
JsonValue(v) ==
    IF ~IsNone(v) /\ Get(v).kind = "datetime"
    THEN Some(IsoString(Get(v).t, IF Get(v).tz = "utc" THEN "Z" ELSE ""))
    ELSE v

\* line 251: task_data.model_dump(mode='json', exclude_none=False): every field,
\* a field the request left out with its default None
model_dump_json(task_data) ==
    [k \in TaskCreateFields |-> IF k = "deadline" THEN JsonValue(DictGet(task_data, k, None))
                                ELSE DictGet(task_data, k, None)]

\* lines 251-259: the dict given to extract_task_features
estimation_dict(task_data) ==
    LET d == model_dump_json(task_data)
    IN  [d EXCEPT !.priority = IF IsNone(@) THEN Some(5) ELSE @,
                  !.description = IF IsNone(@) THEN Some(EmptyText) ELSE @]

\* Outcomes: [raised, features: the dict of the extracted features,
\*            hours: ai_estimated_time_hours, confidence: confidence_score]
estimate_task_completion_time(task_data, clock) ==
    UNION {IF e.raised
           THEN {[raised |-> TRUE, features |-> None, hours |-> None, confidence |-> None]}
           ELSE {[raised |-> pr.raised \/ c.raised,
                  features |-> Some(to_dict(Get(e.series))),
                  hours |-> IF pr.raised \/ c.raised THEN None ELSE pr.value,
                  confidence |-> IF pr.raised \/ c.raised THEN None ELSE c.value] :
                    pr \in predict(to_dict(Get(e.series))),
                    c \in get_confidence(to_dict(Get(e.series)))} :
            e \in extract_task_features(estimation_dict(task_data), clock)}

----------------------------------------------------------------------------
(* Specification of the estimation: callers of TimeEstimatorModel with a    *)
(* feature mapping, and of estimate_task_completion_time with a TaskCreate  *)

\* feature mappings that hold every field
FullFeatures ==
    {[title_length |-> Some(tl), description_length |-> Some(dl), priority |-> Some(p),
      days_until_deadline |-> Some(days), has_deadline |-> Some(hd),
      project_id |-> Some(0), category_id |-> Some(0), num_tags |-> Some(nt),
      has_urgent_tag |-> Some(nt), has_meeting_tag |-> Some(0), has_report_tag |-> Some(0)] :
        tl \in {0, 3}, dl \in {0, 49, 50}, p \in {0, 10},
        days \in {-1 * TicksPerDay, 0, 1, 30 * TicksPerDay}, hd \in {0, 1}, nt \in {0, 1}}

ZeroFeatures == [k \in Range(feature_names) |-> Some(0)]

Without(d, key) == [k \in DOMAIN d \ {key} |-> d[k]]

\* mappings of another shape: a field left out or without a number, no field at
\* all, a field too many
OtherFeatures ==
    {Without(ZeroFeatures, k) : k \in Range(feature_names)}
    \cup {[ZeroFeatures EXCEPT ![k] = v] : k \in Range(feature_names), v \in {None, NaN}}
    \cup {EmptyDict, DictUpdate(ZeroFeatures, [extra |-> Some(1)])}

FeatureMaps == FullFeatures \cup OtherFeatures

\* valid TaskCreate requests, as the dict of the fields the request set
EstimateRequests ==
    {MakeRecord([title |-> Some(<<"a">>), description |-> d, priority |-> p,
                 deadline |-> dl, project_id |-> pj, category_id |-> c, tags |-> g]) :
        d \in {Absent, Some(Repeat("b", 50))},
        p \in {Absent, Some(10)},
        dl \in {Absent} \cup {Some(Datetime(t, tz)) : t \in Deadlines, tz \in {"utc", "naive"}},
        pj \in {Absent, Some(1)},
        c \in {Absent, Some(1)},
        g \in {Absent, Some(UrgentTag)}}

\* a caller holds a feature mapping or a request
InitEstimate ==
    /\ ef = "sentence_transformer"
    /\ index = EmptyDict
    /\ tasks = EmptyDict
    /\ projects = EmptyDict
    /\ categories = EmptyDict
    /\ last \in {[op |-> "input", kind |-> "features", arg |-> f, clock |-> 0,
                  raised |-> FALSE, features |-> None, value |-> None,
                  confidence |-> None] : f \in FeatureMaps}
            \cup {[op |-> "input", kind |-> "task", arg |-> t, clock |-> 0,
                   raised |-> FALSE, features |-> None, value |-> None,
                   confidence |-> None] : t \in EstimateRequests}
    /\ thr = EmptyDict
    /\ issued = EmptyDict
    /\ now = 0

Predict ==
    /\ last.kind = "features"
    /\ \E out \in predict(last.arg) :
         last' = [last EXCEPT !.op = "predict", !.raised = out.raised, !.value = out.value]
    /\ UNCHANGED <<ef, now, index, tasks, projects, categories, thr, issued>>

GetConfidence ==
    /\ last.kind = "features"
    /\ \E out \in get_confidence(last.arg) :
         last' = [last EXCEPT !.op = "get_confidence", !.raised = out.raised,
                              !.value = None, !.confidence = out.value]
    /\ UNCHANGED <<ef, now, index, tasks, projects, categories, thr, issued>>

EstimateTaskCompletionTime ==
    /\ last.kind = "task"
    /\ \E out \in estimate_task_completion_time(last.arg, now) :
         last' = [last EXCEPT !.op = "estimate", !.clock = now, !.raised = out.raised,
                              !.features = out.features, !.value = out.hours,
                              !.confidence = out.confidence]
    /\ UNCHANGED <<ef, now, index, tasks, projects, categories, thr, issued>>

NextEstimate ==
    \/ Predict
    \/ GetConfidence
    \/ EstimateTaskCompletionTime
    \/ Tick

SpecEstimate == InitEstimate /\ [][NextEstimate]_vars

----------------------------------------------------------------------------
(* Properties of the feature extractor (SpecFeatures, SpecTags)             *)

Extracted == last.op = "extract" /\ ~last.raised

FeatureOf(name) == Get(last.series).values[name]

\* the record holds no value under the key: the key is absent or holds None
Missing(task_data, key) == key \notin DOMAIN task_data \/ IsNone(task_data[key])

\* C12: the features extract_task_features returns are exactly the 11 named
\* fields, each once, in the order in which TimeEstimatorModel pairs fields
\* with its coefficients, whatever the task record.
C12_FeatureOrder ==
    Extracted =>
        /\ Get(last.series).index = feature_names
        /\ Len(Get(last.series).index) = 11
        /\ Cardinality(Range(Get(last.series).index)) = 11
        /\ DOMAIN Get(last.series).values = Range(feature_names)
        /\ Len(coef_) = 11

C12_FeatureOrder_Witness ==
    /\ Extracted
    /\ DOMAIN last.task_data = {"title"}

\* C13: a task record that lacks priority, project id or category id, or holds
\* None under it, gets the features priority = 5, project_id = 0 and
\* category_id = 0 respectively.
C13_MissingNumericDefaults ==
    Extracted =>
        /\ Missing(last.task_data, "priority") => FeatureOf("priority") = Some(5)
        /\ Missing(last.task_data, "project_id") => FeatureOf("project_id") = Some(0)
        /\ Missing(last.task_data, "category_id") => FeatureOf("category_id") = Some(0)

\* -1 day
NoDeadlineDays == Some(-1 * TicksPerDay)

\* C15: a task record with no deadline gets has_deadline = 0 and
\* days_until_deadline = -1.
C15_NoDeadline ==
    (Extracted /\ Missing(last.task_data, "deadline")) =>
        /\ FeatureOf("has_deadline") = Some(0)
        /\ FeatureOf("days_until_deadline") = NoDeadlineDays

C15_NoDeadline_Witness ==
    /\ Extracted
    /\ "deadline" \in DOMAIN last.task_data
    /\ IsNone(last.task_data.deadline)
    /\ FeatureOf("days_until_deadline") = NoDeadlineDays

\* the deadline is a string that is not ISO-8601, or neither a string nor a datetime
Malformed(task_data) ==
    /\ ~Missing(task_data, "deadline")
    /\ \/ Get(task_data.deadline).kind = "int"
       \/ Get(task_data.deadline).kind = "str" /\ IsNone(Get(task_data.deadline).iso)

\* the record holds None as title or description, which makes len() raise
NullText(task_data) ==
    \/ "title" \in DOMAIN task_data /\ IsNone(task_data.title)
    \/ "description" \in DOMAIN task_data /\ IsNone(task_data.description)

\* C16: a malformed deadline never makes extract_task_features raise and is
\* treated like an absent one: has_deadline = 0 and days_until_deadline = -1.
C16_MalformedDeadline ==
    (last.op = "extract" /\ Malformed(last.task_data)) =>
        /\ last.raised => NullText(last.task_data)
        /\ ~last.raised =>
              /\ FeatureOf("has_deadline") = Some(0)
              /\ FeatureOf("days_until_deadline") = NoDeadlineDays

C16_MalformedDeadline_Witness ==
    /\ Extracted
    /\ Malformed(last.task_data)
    /\ last.task_data.deadline = Some(OtherString)
    /\ FeatureOf("has_deadline") = Some(0)

\* the instant of a valid deadline: a datetime or an ISO-8601 string
DeadlineInstant(task_data) ==
    IF Missing(task_data, "deadline") \/ Malformed(task_data)
    THEN None
    ELSE IF Get(task_data.deadline).kind = "datetime"
         THEN Some(Get(task_data.deadline).t)
         ELSE Some(Get(Get(task_data.deadline).iso).t)

\* C17: with a valid deadline D, extracted at time now, has_deadline = 1 and
\* days_until_deadline = max(0, D - now) in days, 0 and never negative once D
\* has passed, and a later extraction for the same record never gives more
\* days than an earlier one.
C17_DaysUntilDeadline ==
    [][(last'.op = "extract" /\ ~last'.raised /\ ~IsNone(DeadlineInstant(last'.task_data))) =>
          /\ Get(last'.series).values["has_deadline"] = Some(1)
          /\ Get(last'.series).values["days_until_deadline"]
               = Some(Max(0, Get(DeadlineInstant(last'.task_data)) - last'.clock))
          /\ Get(Get(last'.series).values["days_until_deadline"]) >= 0
          /\ (last.op = "extract" /\ ~last.raised) =>
                Get(Get(last'.series).values["days_until_deadline"])
                  <= Get(FeatureOf("days_until_deadline"))]_vars

C17_DaysUntilDeadline_Witness ==
    /\ Extracted
    /\ ~IsNone(DeadlineInstant(last.task_data))
    /\ Get(DeadlineInstant(last.task_data)) < last.clock
    /\ FeatureOf("days_until_deadline") = Some(0)

\* the record holds a tag string
Tagged == "tags" \in DOMAIN last.task_data /\ ~IsNone(last.task_data.tags)

\* the tokens of a tag string: the text in lower case, cut at the commas, each
\* part trimmed, the empty parts dropped
Tokens(tags_str) ==
    LET parts == Split(Lower(tags_str), ",")
    IN  SelectSeq([i \in DOMAIN parts |-> Strip(parts[i])], LAMBDA tok : tok # EmptyText)

\* the tag features extracted last
LastTagFeatures ==
    [num_tags |-> FeatureOf("num_tags"),
     has_urgent_tag |-> FeatureOf("has_urgent_tag"),
     has_meeting_tag |-> FeatureOf("has_meeting_tag"),
     has_report_tag |-> FeatureOf("has_report_tag")]

\* C18 as stated: the tag features depend only on the set of tokens: num_tags
\* is the number of tokens in the set, each flag is 1 exactly when its keyword
\* is in the set, and two tag strings with the same set of tokens get the
\* same tag features.
C18_TagFeaturesOfTokenSet ==
    (Extracted /\ Tagged) =>
        LET tok == Range(Tokens(Get(last.task_data.tags)))
        IN  /\ FeatureOf("num_tags") = Some(Cardinality(tok))
            /\ FeatureOf("has_urgent_tag") = Flag(UrgentTag \in tok)
            /\ FeatureOf("has_meeting_tag") = Flag(MeetingTag \in tok)
            /\ FeatureOf("has_report_tag") = Flag(ReportTag \in tok)
            /\ \A other \in TagStrings :
                 Range(Tokens(other)) = tok
                   => tag_features([tags |-> Some(other)]) = LastTagFeatures

\* C18 amended: the tag features depend only on the tokens counted with their
\* repetitions: num_tags is the number of tokens, a token that occurs twice
\* counted twice, each flag is 1 exactly when its keyword is one of the
\* tokens, and two tag strings with the same tokens, letter case and
\* surrounding blanks aside, get the same tag features.
C18_TagFeaturesOfTokens ==
    (Extracted /\ Tagged) =>
        LET tok == Tokens(Get(last.task_data.tags))
        IN  /\ FeatureOf("num_tags") = Some(Len(tok))
            /\ FeatureOf("has_urgent_tag") = Flag(UrgentTag \in Range(tok))
            /\ FeatureOf("has_meeting_tag") = Flag(MeetingTag \in Range(tok))
            /\ FeatureOf("has_report_tag") = Flag(ReportTag \in Range(tok))
            /\ \A other \in TagStrings :
                 Tokens(other) = tok
                   => tag_features([tags |-> Some(other)]) = LastTagFeatures

C18_TagFeaturesOfTokens_Witness ==
    /\ Extracted /\ Tagged
    /\ Get(last.task_data.tags) # Lower(Get(last.task_data.tags))
    /\ Len(Tokens(Get(last.task_data.tags))) = 2
    /\ Cardinality(Range(Tokens(Get(last.task_data.tags)))) = 1
    /\ FeatureOf("has_urgent_tag") = Some(1)

----------------------------------------------------------------------------
(* Properties of the estimation (SpecEstimate)                              *)

\* the mapping holds a number under each of the 11 fields
IsFeatureVector(features) ==
    /\ Range(feature_names) \subseteq DOMAIN features
    /\ \A k \in Range(feature_names) : IsNumber(features[k])

\* C11: the estimate is never below 0.25 hours: predict returns at least 0.25
\* for every feature vector, and estimate_task_completion_time returns an
\* estimate of at least 0.25 for every valid task input.
C11_EstimateFloor ==
    /\ (last.op = "predict" /\ IsFeatureVector(last.arg)) =>
          (~last.raised /\ Get(last.value) >= MinEstimate)
    /\ last.op = "estimate" =>
          (~last.raised /\ Get(last.value) >= MinEstimate)

\* the mapping is not the 11 required fields: one is missing, or there are others
WrongShape(features) == DOMAIN features # Range(feature_names)

\* C14: predict and get_confidence fail with an error when the feature mapping
\* lacks a required field or has the wrong shape; neither puts a default in
\* the place of a missing field.
C14_FailFast ==
    (last.op \in {"predict", "get_confidence"} /\ WrongShape(last.arg)) => last.raised

\* C19: get_confidence returns 0.7, plus 0.1 when has_deadline is 1, plus 0.05
\* when description_length is under 50, and the result lies in [0,1].
C19_Confidence ==
    (last.op = "get_confidence" /\ IsFeatureVector(last.arg)) =>
        /\ ~last.raised
        /\ Get(last.confidence) =
              70 + (IF Get(last.arg.has_deadline) = 1 THEN 10 ELSE 0)
                 + (IF Get(last.arg.description_length) < 50 THEN 5 ELSE 0)
        /\ Get(last.confidence) \in 0..100

C19_Confidence_Witness ==
    /\ last.op = "get_confidence" /\ IsFeatureVector(last.arg)
    /\ Get(last.arg.has_deadline) = 1
    /\ Get(last.arg.description_length) = 49
    /\ last.confidence = Some(85)

----------------------------------------------------------------------------
(* models/time_estimator.py: the minute estimator estimate_time, and the    *)
(* handler of POST /ai/estimate-time (api/endpoints/ai.py)                  *)
(*                                                                          *)
(* time_chain is prompt | llm with a completion model: invoke raises or     *)
(* returns the reply, a text.                                               *)

MaxReply == 4

\* int() of a decimal digit
DigitValue ==
    ("0" :> 0) @@ ("1" :> 1) @@ ("2" :> 2) @@ ("3" :> 3) @@ ("4" :> 4)
    @@ ("5" :> 5) @@ ("6" :> 6) @@ ("7" :> 7) @@ ("8" :> 8) @@ ("9" :> 9)

\* \d
IsDigit(c) == c \in DOMAIN DigitValue

RECURSIVE TakeDigits(_)
\* the longest prefix of t made of digits
TakeDigits(t) ==
    IF t # <<>> /\ IsDigit(Head(t)) THEN <<Head(t)>> \o TakeDigits(Tail(t)) ELSE <<>>

RECURSIVE re_search_digits(_)
\* re.search(r"\d+", t): the match's text, None when there is no match
re_search_digits(t) ==
    IF t = <<>> THEN None
    ELSE IF IsDigit(Head(t)) THEN Some(TakeDigits(t))
         ELSE re_search_digits(Tail(t))

RECURSIVE int(_)
\* int() of a text of digits
int(t) ==
    IF t = <<>> THEN 0 ELSE 10 * int(SubSeq(t, 1, Len(t) - 1)) + DigitValue[t[Len(t)]]

MinMinutes == 1
MaxMinutes == 1440

\* the value except Exception returns
NoEstimate == -1

\* Mutant: estimate_time without the range check of line 14
estimate_time_unchecked(chain) ==
    IF chain.raised
    THEN [raised |-> FALSE, value |-> NoEstimate]
    ELSE LET match == re_search_digits(chain.reply)
         IN  IF ~IsNone(match)
             THEN [raised |-> FALSE, value |-> int(Get(match))]
             ELSE [raised |-> FALSE, value |-> NoEstimate]

\* lines 7-18; chain is what time_chain.invoke did: [raised, reply].  The
\* ValueError of line 16 and what the chain raises end in the handler of line 17
estimate_time(chain) ==
    IF chain.raised
    THEN [raised |-> FALSE, value |-> NoEstimate]
    ELSE LET match == re_search_digits(chain.reply)
         IN  IF ~IsNone(match) /\ MinMinutes <= int(Get(match)) /\ int(Get(match)) <= MaxMinutes
             THEN [raised |-> FALSE, value |-> int(Get(match))]
             ELSE [raised |-> FALSE, value |-> NoEstimate]

\* api/endpoints/ai.py, lines 22-25: the response of POST /ai/estimate-time
estimate(chain) ==
    LET minutes == estimate_time(chain)
    IN  IF minutes.raised
        THEN [status |-> 500, body |-> None]
        ELSE [status |-> 200, body |-> Some([estimated_minutes |-> minutes.value])]

----------------------------------------------------------------------------
(* Specification of the minute estimator: the model call fails or replies   *)

\* the pieces replies are made of, and the replies of up to MaxReply pieces
ReplyPieces == {<<"0">>, <<"1">>, <<"4">>, <<"a">>, <<"-">>}

RECURSIVE ReplyTexts(_)
ReplyTexts(n) ==
    IF n = 0 THEN {EmptyText}
    ELSE ReplyTexts(n - 1) \cup {t \o pc : t \in ReplyTexts(n - 1), pc \in ReplyPieces}

\* what time_chain.invoke does
TimeChainResults ==
    {[raised |-> TRUE, reply |-> EmptyText]}
    \cup {[raised |-> FALSE, reply |-> t] : t \in ReplyTexts(MaxReply)}

InitMinutes ==
    /\ ef = "sentence_transformer"
    /\ index = EmptyDict
    /\ tasks = EmptyDict
    /\ projects = EmptyDict
    /\ categories = EmptyDict
    /\ last \in {[op |-> "chain", chain |-> c, raised |-> FALSE, value |-> 0,
                  status |-> 0, body |-> None] : c \in TimeChainResults}
    /\ thr = EmptyDict
    /\ issued = EmptyDict
    /\ now = 0

EstimateTime ==
    /\ LET out == estimate_time(last.chain)
       IN  last' = [last EXCEPT !.op = "estimate_time", !.raised = out.raised,
                                !.value = out.value, !.status = 0, !.body = None]
    /\ UNCHANGED <<ef, now, index, tasks, projects, categories, thr, issued>>

Estimate ==
    /\ LET out == estimate(last.chain)
       IN  last' = [last EXCEPT !.op = "estimate", !.raised = FALSE, !.value = 0,
                                !.status = out.status, !.body = out.body]
    /\ UNCHANGED <<ef, now, index, tasks, projects, categories, thr, issued>>

NextMinutes ==
    \/ EstimateTime
    \/ Estimate

SpecMinutes == InitMinutes /\ [][NextMinutes]_vars

----------------------------------------------------------------------------
(* Properties of the minute estimator (SpecMinutes)                         *)

\* the positions of the digits of a text
DigitPositions(t) == {i \in DOMAIN t : IsDigit(t[i])}

\* the first integer written in a text that holds a digit: the digits from the
\* first digit up to the next character that is none
FirstInteger(t) ==
    LET first == CHOOSE i \in DigitPositions(t) : \A j \in DigitPositions(t) : i <= j
        end == CHOOSE j \in first..Len(t) :
                  /\ \A k \in first..j : IsDigit(t[k])
                  /\ (j = Len(t) \/ ~IsDigit(t[j + 1]))
        Pow10[n \in 0..Len(t)] == IF n = 0 THEN 1 ELSE 10 * Pow10[n - 1]
        Weighted[k \in first - 1..end] ==
            IF k < first THEN 0 ELSE Weighted[k - 1] + DigitValue[t[k]] * Pow10[end - k]
    IN  Weighted[end]

\* the minutes the claim names for what the model call did
ExpectedMinutes(chain) ==
    IF /\ ~chain.raised
       /\ DigitPositions(chain.reply) # {}
       /\ FirstInteger(chain.reply) \in 1..1440
    THEN FirstInteger(chain.reply)
    ELSE -1

\* C23: estimate_time never raises and always gives the response of
\* /ai/estimate-time its minutes: the first integer of the model's reply when
\* it lies in 1..1440, and -1 otherwise (no integer, an integer out of range,
\* a failed model call).
C23_MinutesOrMinusOne ==
    /\ last.op = "estimate_time" =>
          (~last.raised /\ last.value = ExpectedMinutes(last.chain))
    /\ last.op = "estimate" =>
          /\ last.status = 200
          /\ last.body = Some([estimated_minutes |-> ExpectedMinutes(last.chain)])

C23_MinutesOrMinusOne_Witness ==
    /\ last.op = "estimate_time"
    /\ last.chain.reply = <<"1", "4", "4", "0">>
    /\ last.value = 1440

----------------------------------------------------------------------------
(* api/endpoints/tasks.py: the task endpoints                               *)
(*                                                                          *)
(* Each handler is the set of its possible outcomes:                        *)
(* [status: the HTTP status of the response, db: table "tasks" afterwards,  *)
(*  index: the index afterwards].  current_user is what the dependency      *)
(* get_current_user made of the request's token: None when it raised its    *)
(* 401, else the user's id.  A timestamp is the tick of the clock.          *)

HttpOutcome(status, db, idx) == [status |-> status, db |-> db, index |-> idx]

\* the response of a handler that ran the service method with outcome o:
\* an exception that leaves the handler is answered with 500
Answer(ok, o) == HttpOutcome(IF o.raised THEN 500 ELSE ok, o.db, o.index)

\* bool(n) of an Optional[int]
TruthyInt(o) == ~IsNone(o) /\ Get(o) # 0

\* crud.get_project / crud.get_category, then lines 38 and 43: the row is
\* missing or is not the user's
NotOwned(table, id, user_id) == id \notin DOMAIN table \/ table[id] # user_id

\* the request validation of TaskCreate and TaskUpdate: the title of 1 to 255
\* characters, the priority in 1..10, the scores in [0, 1]
ValidTaskBody(task) ==
    /\ ("title" \in DOMAIN task /\ ~IsNone(task.title)) => Len(Get(task.title)) \in 1..255
    /\ InRange(Field(task, "priority"), 1, 10)
    /\ InRange(Field(task, "urgency_score"), 0, 100)
    /\ InRange(Field(task, "importance_score"), 0, 100)

\* lines 25-47
create_task_for_current_user(idx, db, projs, cats, task, current_user) ==
    IF IsNone(current_user) THEN {HttpOutcome(401, db, idx)}
    ELSE IF ~ValidTaskBody(task) \/ "title" \notin DOMAIN task \/ IsNone(task.title)
    THEN {HttpOutcome(422, db, idx)}
    ELSE IF \/ TruthyInt(Field(task, "project_id"))
               /\ NotOwned(projs, Get(task.project_id), Get(current_user))
            \/ TruthyInt(Field(task, "category_id"))
               /\ NotOwned(cats, Get(task.category_id), Get(current_user))
    THEN {HttpOutcome(400, db, idx)}
    ELSE {Answer(201, o) : o \in TaskService_create_task(idx, db, task, Get(current_user))}

\* what every handler that takes a task id starts with: the status of the
\* refusal, 0 when the handler goes on.  The framework answers 401 when
\* get_current_user raised and 422 when the body is not valid, before the
\* handler runs; lines 88-92 then answer 404 and 403.
Refusal(db, task_id, current_user, valid) ==
    IF IsNone(current_user) THEN 401
    ELSE IF ~valid THEN 422
    ELSE IF task_id \notin DOMAIN db THEN 404
    ELSE IF db[task_id].owner_id # Get(current_user) THEN 403
    ELSE 0

\* Mutant: read_task without the check of lines 91-92
read_task_unchecked(idx, db, task_id, current_user) ==
    IF IsNone(current_user) THEN {HttpOutcome(401, db, idx)}
    ELSE IF task_id \notin DOMAIN db THEN {HttpOutcome(404, db, idx)}
    ELSE {HttpOutcome(200, db, idx)}

\* lines 78-93
read_task(idx, db, task_id, current_user) ==
    IF Refusal(db, task_id, current_user, TRUE) # 0
    THEN {HttpOutcome(Refusal(db, task_id, current_user, TRUE), db, idx)}
    ELSE {HttpOutcome(200, db, idx)}

\* lines 95-123
update_task(idx, db, projs, cats, task_id, task_update, current_user) ==
    IF Refusal(db, task_id, current_user, ValidTaskBody(task_update)) # 0
    THEN {HttpOutcome(Refusal(db, task_id, current_user, ValidTaskBody(task_update)),
                      db, idx)}
    ELSE IF \/ ~IsNone(Field(task_update, "project_id"))
               /\ NotOwned(projs, Get(task_update.project_id), Get(current_user))
            \/ ~IsNone(Field(task_update, "category_id"))
               /\ NotOwned(cats, Get(task_update.category_id), Get(current_user))
    THEN {HttpOutcome(400, db, idx)}
    ELSE {Answer(200, o) : o \in TaskService_update_task(idx, db, task_id, task_update)}

\* the statuses TaskStatusUpdate lets through
TaskStatuses == {"To Do", "In Progress", "Done", "On Hold", "Cancelled"}

\* Mutant: lines 144-151 with the time of completion taken anew at each Done
status_timestamps_renewing(db_task, status, clock) ==
    IF status = "In Progress" /\ IsNone(db_task.started_at)
    THEN [started_at |-> Some(clock), completed_at |-> None]
    ELSE IF status = "Done"
    THEN [completed_at |-> Some(clock)]
    ELSE IF status # "Done" /\ ~IsNone(db_task.completed_at)
    THEN [completed_at |-> None]
    ELSE EmptyDict

\* lines 144-151: the timestamps the change of status sets
status_timestamps(db_task, status, clock) ==
    IF status = "In Progress" /\ IsNone(db_task.started_at)
    THEN [started_at |-> Some(clock), completed_at |-> None]
    ELSE IF status = "Done" /\ IsNone(db_task.completed_at)
    THEN [completed_at |-> Some(clock)]
    ELSE IF status # "Done" /\ ~IsNone(db_task.completed_at)
    THEN [completed_at |-> None]
    ELSE EmptyDict

\* lines 125-158
update_task_status(idx, db, task_id, status_update, current_user, clock) ==
    IF Refusal(db, task_id, current_user, status_update.status \in TaskStatuses) # 0
    THEN {HttpOutcome(Refusal(db, task_id, current_user,
                              status_update.status \in TaskStatuses), db, idx)}
    ELSE LET task_data_to_update ==
                 DictUpdate([status |-> Some(status_update.status)],
                            status_timestamps(db[task_id], status_update.status, clock))
         IN  {Answer(200, o) :
                o \in TaskService_update_task(idx, db, task_id, task_data_to_update)}

\* lines 160-181
update_task_priority(idx, db, task_id, priority_update, current_user) ==
    IF Refusal(db, task_id, current_user, priority_update.priority \in 1..10) # 0
    THEN {HttpOutcome(Refusal(db, task_id, current_user,
                              priority_update.priority \in 1..10), db, idx)}
    ELSE {Answer(200, o) :
            o \in TaskService_update_task(idx, db, task_id,
                                          [priority |-> Some(priority_update.priority)])}

\* lines 184-202
delete_task(idx, db, task_id, current_user) ==
    IF Refusal(db, task_id, current_user, TRUE) # 0
    THEN {HttpOutcome(Refusal(db, task_id, current_user, TRUE), db, idx)}
    ELSE {Answer(204, o) : o \in TaskService_delete_task(idx, db, task_id)}

----------------------------------------------------------------------------
(* api/endpoints/projects.py, api/endpoints/categories.py and their crud    *)
(*                                                                          *)
(* The two tables map the id of a row to its owner's id; the handlers of    *)
(* the one are those of the other.  fk is the column of "tasks" that refers *)
(* to the table.  Outcomes: [status, table, db: table "tasks" afterwards].  *)

RefOutcome(status, table, db) == [status |-> status, table |-> table, db |-> db]

\* crud.create_user_project / crud.create_user_category
crud_create_user_row(table, user_id) == Insert(table, NextId(table), user_id)

\* crud.delete_project / crud.delete_category: the table and "tasks"
\* afterwards.  Project.tasks and Category.tasks are relationships without a
\* delete cascade: when the session deletes the row, it sets the column of
\* the tasks that refer to it to NULL.
crud_delete_row(table, db, fk, id) ==
    IF id \notin DOMAIN table
    THEN [table |-> table, db |-> db]
    ELSE [table |-> Remove(table, id),
          db |-> [t \in DOMAIN db |->
                    IF db[t][fk] = Some(id) THEN [db[t] EXCEPT ![fk] = None] ELSE db[t]]]

\* projects.py, lines 14-23; categories.py: create_..._for_current_user
create_row_for_current_user(table, db, current_user) ==
    IF IsNone(current_user) THEN RefOutcome(401, table, db)
    ELSE RefOutcome(201, crud_create_user_row(table, Get(current_user)), db)

\* projects.py, lines 74-91: delete_project; categories.py: delete_category
delete_row(table, db, fk, id, current_user) ==
    IF IsNone(current_user) THEN RefOutcome(401, table, db)
    ELSE IF id \notin DOMAIN table THEN RefOutcome(404, table, db)
    ELSE IF table[id] # Get(current_user) THEN RefOutcome(403, table, db)
    ELSE LET d == crud_delete_row(table, db, fk, id)
         IN  RefOutcome(204, d.table, d.db)

----------------------------------------------------------------------------
(* services/task_service.py, database/crud.py: the scores an AI component   *)
(* writes                                                                   *)

\* crud.update_task_urgency_importance, which
\* TaskService.update_task_urgency_importance calls with its own arguments
crud_update_task_urgency_importance(db, task_id, urgency_score, importance_score, priority) ==
    IF task_id \notin DOMAIN db
    THEN db
    ELSE [db EXCEPT ![task_id] =
            [@ EXCEPT !.urgency_score = Some(urgency_score),
                      !.importance_score = Some(importance_score),
                      !.priority = Some(priority)]]

\* TaskService.update_task_urgency_importance, lines 287-292: the arguments go
\* to crud as they came
TaskService_update_task_urgency_importance(db, task_id, urgency_score, importance_score, priority) ==
    crud_update_task_urgency_importance(db, task_id, urgency_score, importance_score,
                                        priority)

----------------------------------------------------------------------------
(* Requests to the endpoints *)

MaxApiTasks == 1
MaxApiNow == 2

\* what get_current_user makes of a request: a user, or its 401
Authenticated == {Some(u) : u \in Users}
CurrentUsers == {None} \cup Authenticated

\* bodies of POST /tasks/: the last one is not a valid TaskCreate
ApiCreates ==
    {[title |-> Some(<<"a">>)],
     [title |-> Some(<<"a">>), status |-> Some("Done")],
     [title |-> Some(<<"a">>), priority |-> Some(11)]}

\* bodies of PUT /tasks/{id}: the last one is not a valid TaskUpdate
ApiUpdates ==
    {[status |-> Some("Done"), actual_time_spent_hours |-> Some(7)],
     [started_at |-> Some(0), actual_time_spent_hours |-> Some(7)],
     [completed_at |-> Some(0)],
     [urgency_score |-> Some(150)]}

\* bodies of PATCH /tasks/{id}/status: the last one is not a valid TaskStatusUpdate
StatusUpdates ==
    {[status |-> "To Do"], [status |-> "In Progress"], [status |-> "Done"],
     [status |-> "Blocked"]}

\* the task ids the requests name: those of the tasks there can be, and one more
ApiTaskIds == 1..(MaxApiTasks + 1)

\* bodies of PATCH /tasks/{id}/priority: the last one is not a valid TaskPriorityUpdate
PriorityUpdates == {[priority |-> 3], [priority |-> 11]}

\* the record of a request answered: the handler, the task id of the path,
\* the user, whether the body was valid, the status of the response
Answered(op, id, user, valid, status) ==
    [op |-> op, id |-> id, user |-> user, valid |-> valid, status |-> status]

----------------------------------------------------------------------------
(* Specification of the task endpoints: one request at a time *)

InitApi ==
    /\ ef = "sentence_transformer"
    /\ index = EmptyDict
    /\ tasks = EmptyDict
    /\ projects = EmptyDict
    /\ categories = EmptyDict
    /\ last = Answered("none", 0, None, TRUE, 0)
    /\ thr = EmptyDict
    /\ issued = EmptyDict
    /\ now = 0

\* POST /tasks/
PostTask(bodies) ==
    /\ NextId(tasks) <= MaxApiTasks
    /\ \E task \in bodies, user \in CurrentUsers :
         \E out \in create_task_for_current_user(index, tasks, projects, categories,
                                                 task, user) :
           /\ tasks' = out.db
           /\ index' = out.index
           /\ last' = Answered("create_task_for_current_user", NextId(tasks), user,
                               ValidTaskBody(task), out.status)
    /\ UNCHANGED <<ef, now, projects, categories, thr, issued>>

\* GET /tasks/{task_id}
GetTask ==
    /\ \E id \in ApiTaskIds, user \in Authenticated :
         \E out \in read_task(index, tasks, id, user) :
           /\ tasks' = out.db
           /\ index' = out.index
           /\ last' = Answered("read_task", id, user, TRUE, out.status)
    /\ UNCHANGED <<ef, now, projects, categories, thr, issued>>

\* PUT /tasks/{task_id}
PutTask(bodies) ==
    /\ \E id \in ApiTaskIds, task_update \in bodies, user \in Authenticated :
         \E out \in update_task(index, tasks, projects, categories, id, task_update, user) :
           /\ tasks' = out.db
           /\ index' = out.index
           /\ last' = Answered("update_task", id, user, ValidTaskBody(task_update),
                               out.status)
    /\ UNCHANGED <<ef, now, projects, categories, thr, issued>>

\* PATCH /tasks/{task_id}/status
PatchStatus ==
    /\ \E id \in ApiTaskIds, status_update \in StatusUpdates, user \in Authenticated :
         \E out \in update_task_status(index, tasks, id, status_update, user, now) :
           /\ tasks' = out.db
           /\ index' = out.index
           /\ last' = Answered("update_task_status", id, user,
                               status_update.status \in TaskStatuses, out.status)
    /\ UNCHANGED <<ef, now, projects, categories, thr, issued>>

\* PATCH /tasks/{task_id}/priority
PatchPriority ==
    /\ \E id \in ApiTaskIds, priority_update \in PriorityUpdates, user \in Authenticated :
         \E out \in update_task_priority(index, tasks, id, priority_update, user) :
           /\ tasks' = out.db
           /\ index' = out.index
           /\ last' = Answered("update_task_priority", id, user,
                               priority_update.priority \in 1..10, out.status)
    /\ UNCHANGED <<ef, now, projects, categories, thr, issued>>

\* DELETE /tasks/{task_id}
DeleteTaskById ==
    /\ \E id \in ApiTaskIds, user \in Authenticated :
         \E out \in delete_task(index, tasks, id, user) :
           /\ tasks' = out.db
           /\ index' = out.index
           /\ last' = Answered("delete_task", id, user, TRUE, out.status)
    /\ UNCHANGED <<ef, now, projects, categories, thr, issued>>

\* the clock of datetime.now() goes on
ApiTick ==
    /\ now < MaxApiNow
    /\ now' = now + 1
    /\ UNCHANGED <<ef, index, tasks, projects, categories, last, thr, issued>>

NextApi ==
    \/ PostTask(ApiCreates)
    \/ GetTask
    \/ PutTask(ApiUpdates)
    \/ PatchStatus
    \/ PatchPriority
    \/ DeleteTaskById
    \/ ApiTick

SpecApi == InitApi /\ [][NextApi]_vars

----------------------------------------------------------------------------
(* Properties of the task endpoints (SpecApi)                               *)

\* C24: a POST to /tasks/ with a valid task body succeeds with status 200.
C24_CreateAnswers200 ==
    (last.op = "create_task_for_current_user" /\ last.valid /\ ~IsNone(last.user)) =>
        last.status = 200

\* the step is a request to update_task_status that was answered with 200
StatusUpdated == now' = now /\ last'.op = "update_task_status" /\ last'.status = 200

\* C25: after a successful PATCH /tasks/{id}/status, whatever happened to the
\* task before: a new status Done comes with a completed_at, any other new
\* status with a null completed_at, a new status In Progress with a
\* started_at; and an update to Done of a task that has a completed_at leaves
\* it as it is.
C25_StatusTimestamps ==
    [][StatusUpdated =>
         LET before == tasks[last'.id]
             after == tasks'[last'.id]
         IN  /\ after.status = Some("Done") => ~IsNone(after.completed_at)
             /\ after.status # Some("Done") => IsNone(after.completed_at)
             /\ after.status = Some("In Progress") => ~IsNone(after.started_at)
             /\ (after.status = Some("Done") /\ ~IsNone(before.completed_at)) =>
                   after.completed_at = before.completed_at]_vars

C25_StatusTimestamps_Witness ==
    /\ last.op = "update_task_status" /\ last.status = 200
    /\ tasks[last.id].status = Some("Done")
    /\ ~IsNone(tasks[last.id].completed_at)
    /\ Get(tasks[last.id].completed_at) < now

\* C26: in every state the task endpoints reach, a task whose status is not
\* Done has a null actual_time_spent_hours, and a task that is Done with a
\* started_at and a completed_at has actual_time_spent_hours = completed_at -
\* started_at, whatever actual_time_spent_hours an update supplied.
C26_ActualTime ==
    \A id \in DOMAIN tasks :
        LET row == tasks[id]
        IN  /\ row.status # Some("Done") => IsNone(row.actual_time_spent_hours)
            /\ (row.status = Some("Done") /\ ~IsNone(row.started_at)
                  /\ ~IsNone(row.completed_at)) =>
                  row.actual_time_spent_hours
                    = Some(Get(row.completed_at) - Get(row.started_at))

C26_ActualTime_Witness ==
    /\ last.op = "update_task" /\ last.status = 200
    /\ tasks[last.id].status = Some("Done")
    /\ ~IsNone(tasks[last.id].started_at)
    /\ ~IsNone(tasks[last.id].completed_at)
    /\ tasks[last.id].actual_time_spent_hours = Some(2)

\* the handlers that take a task id
ByTaskId ==
    {"read_task", "update_task", "update_task_status", "update_task_priority",
     "delete_task"}

\* the step is a valid request of an authenticated user to such a handler
TaskRequested == now' = now /\ last'.op \in ByTaskId /\ last'.valid /\ ~IsNone(last'.user)

\* C27: every task endpoint that takes a task id answers 404 when no task
\* has the id and 403 when the task is another user's, and in both cases
\* leaves the stored tasks and the index as they were.
C27_MissingOrForeignTask ==
    [][TaskRequested =>
         /\ last'.id \notin DOMAIN tasks =>
               (last'.status = 404 /\ tasks' = tasks /\ index' = index)
         /\ (last'.id \in DOMAIN tasks /\ tasks[last'.id].owner_id # Get(last'.user)) =>
               (last'.status = 403 /\ tasks' = tasks /\ index' = index)]_vars

C27_MissingOrForeignTask_Witness ==
    /\ last.op = "delete_task" /\ last.status = 403
    /\ last.id \in DOMAIN tasks
    /\ last.id \in DOMAIN index
    /\ tasks[last.id].owner_id # Get(last.user)

\* the tasks the index takes: those whose title and description make a text
Embeddable == {id \in DOMAIN tasks : RowText(tasks[id]) # EmptyText}

\* C28: whenever no task operation is in flight, the ids that have a record
\* in the index are the ids of the stored tasks whose text is not empty, also
\* after calls in which a write or a delete of the store or the index failed.
C28_IndexMatchesStore ==
    DOMAIN index = Embeddable

\* C29: once every task operation has completed, the record of each task
\* holds the text and the metadata derived from the task's stored row, also
\* after an update of the status alone.
C29_RecordMatchesRow ==
    \A id \in DOMAIN index \cap DOMAIN tasks :
        /\ index[id].document = RowText(tasks[id])
        /\ index[id].metadata = _prepare_metadata_for_chromadb(tasks[id], id)

----------------------------------------------------------------------------
(* Specification of the task, project and category endpoints together with  *)
(* the scores an AI component writes                                        *)

\* bodies of POST /tasks/ that refer to a project or to a category
RefCreates ==
    {[title |-> Some(<<"a">>), project_id |-> Some(1)],
     [title |-> Some(<<"a">>), project_id |-> Some(0)],
     [title |-> Some(<<"a">>), category_id |-> Some(1)]}

\* bodies of PUT /tasks/{id} that refer to a project or to a category
RefUpdates ==
    {[project_id |-> Some(1)], [project_id |-> Some(0)], [category_id |-> Some(1)]}

\* arguments of update_task_urgency_importance: scores in hundredths, priority
ScoreUpdates ==
    {[urgency_score |-> 50, importance_score |-> 100, priority |-> 1],
     [urgency_score |-> 150, importance_score |-> -20, priority |-> 11]}

\* POST /projects/
PostProject ==
    /\ NextId(projects) <= MaxApiTasks
    /\ \E user \in CurrentUsers :
         LET out == create_row_for_current_user(projects, tasks, user)
         IN  /\ projects' = out.table
             /\ tasks' = out.db
             /\ last' = Answered("create_project_for_current_user", NextId(projects),
                                 user, TRUE, out.status)
    /\ UNCHANGED <<ef, index, now, categories, thr, issued>>

\* DELETE /projects/{project_id}
DeleteProject ==
    /\ \E id \in ApiTaskIds, user \in Authenticated :
         LET out == delete_row(projects, tasks, "project_id", id, user)
         IN  /\ projects' = out.table
             /\ tasks' = out.db
             /\ last' = Answered("delete_project", id, user, TRUE, out.status)
    /\ UNCHANGED <<ef, index, now, categories, thr, issued>>

\* POST /categories/
PostCategory ==
    /\ NextId(categories) <= MaxApiTasks
    /\ \E user \in CurrentUsers :
         LET out == create_row_for_current_user(categories, tasks, user)
         IN  /\ categories' = out.table
             /\ tasks' = out.db
             /\ last' = Answered("create_category_for_current_user", NextId(categories),
                                 user, TRUE, out.status)
    /\ UNCHANGED <<ef, index, now, projects, thr, issued>>

\* DELETE /categories/{category_id}
DeleteCategory ==
    /\ \E id \in ApiTaskIds, user \in Authenticated :
         LET out == delete_row(categories, tasks, "category_id", id, user)
         IN  /\ categories' = out.table
             /\ tasks' = out.db
             /\ last' = Answered("delete_category", id, user, TRUE, out.status)
    /\ UNCHANGED <<ef, index, now, projects, thr, issued>>

\* a call of TaskService.update_task_urgency_importance
UpdateTaskUrgencyImportance ==
    /\ \E id \in ApiTaskIds, a \in ScoreUpdates :
         /\ tasks' = TaskService_update_task_urgency_importance(
                         tasks, id, a.urgency_score, a.importance_score, a.priority)
         /\ last' = [op |-> "update_task_urgency_importance", id |-> id, args |-> a]
    /\ UNCHANGED <<ef, index, now, projects, categories, thr, issued>>

NextRefs ==
    \/ PostProject
    \/ DeleteProject
    \/ PostCategory
    \/ DeleteCategory
    \/ PostTask(RefCreates)
    \/ PutTask(RefUpdates)
    \/ DeleteTaskById
    \/ UpdateTaskUrgencyImportance

SpecRefs == InitApi /\ [][NextRefs]_vars

----------------------------------------------------------------------------
(* Properties of the references and of the stored scores *)

\* the column fk of the task names a row of the table that its owner owns
RefersToOwned(table, db_task, fk) ==
    IsNone(db_task[fk])
        \/ (Get(db_task[fk]) \in DOMAIN table /\ table[Get(db_task[fk])] = db_task.owner_id)

\* C30: in every state reachable through the task, project and category
\* endpoints, the project_id of a task that is not null names an existing
\* project of the task's owner, and so does its category_id for categories.
C30_ReferencesOwned ==
    \A t \in DOMAIN tasks :
        /\ RefersToOwned(projects, tasks[t], "project_id")
        /\ RefersToOwned(categories, tasks[t], "category_id")

\* C22: every urgency and importance score that the create and update
\* operations store lies in [0, 1] and every priority in 1..10: an input out
\* of range is rejected or clamped, never stored as it came.
C22_StoredScoresInRange ==
    \A t \in DOMAIN tasks :
        /\ InRange(tasks[t].urgency_score, 0, 100)
        /\ InRange(tasks[t].importance_score, 0, 100)
        /\ InRange(tasks[t].priority, 1, 10)

====
